---- MODULE Spec2Model ----
(***************************************************************************)
(* State-machine model of the host side of the asgardeo SPA SDK:           *)
(*   - WebWorkerClient.communicate, the correlated channel to the worker   *)
(*     (src/lib/src/clients/web-worker-client.ts),                         *)
(*   - SPAHelper, the refresh-token timer                                  *)
(*     (src/lib/src/helpers/spa-helper.ts),                                *)
(*   - WebWorkerClient.trySignInSilently / requestAccessToken,             *)
(*   - WebWorkerClient.signIn, signOut, requestCustomGrant, updateConfig.  *)
(* Each part has its own specification over its own variables; the        *)
(* variables of the other parts stay at their initial values.              *)
(***************************************************************************)
EXTENDS Integers, Sequences, FiniteSets, TLC

VARIABLES
    requestTimeout,   \* _requestTimeout, fixed at construction
    calls,            \* communicate(): one record per call
    sessionData,      \* DataLayer session data: refresh_token, expires_in
    tempStore,        \* DataLayer temporary data parameter REFRESH_TOKEN_TIMER
    timers,           \* browser timers created by SPAHelper's setTimeout
    nextTimer,        \* the handle the next setTimeout returns
    sched,            \* the refreshAccessTokenAutomatically call in flight
    cancel,           \* the clearRefreshTokenTimeout call in flight, or the last one
    config,           \* the configuration GET_CONFIG_DATA returns
    silent,           \* the trySignInSilently call
    exchanges,        \* the requestAccessToken calls its listener started
    pkceStore,        \* SPAUtils PKCE storage: the keys holding a verifier
    clientConfig,     \* the config parameter of the WebWorkerClient closure
    signin,           \* the signIn call in flight, or the last one
    url,              \* the query parameters of window.location.href
    sent,             \* the messages the operation in flight has sent, in order
    href,             \* the URL assigned to location.href, if any
    pkceUsed,         \* history: keys whose stored verifier a message has carried
    signOutURL,       \* SPAUtils sign-out URL cached in session storage
    checks,           \* checkSession calls in flight
    helper,           \* _sessionManagementHelper: initialized or not
    signout,          \* the signOut call in flight, or the last one
    getSignOutURLFromSessionStorage,  \* _getSignOutURLFromSessionStorage
    update,           \* the updateConfig call in flight, or the last one
    isHttpHandlerEnabled,  \* _isHttpHandlerEnabled
    httpClientHandlers,    \* httpClientHandlers, undefined until initialize()
    request,          \* the httpRequest / httpRequestAll call in flight, or the last one
    handler           \* the enableHttpHandler / disableHttpHandler call, likewise

chanVars == <<requestTimeout, calls>>
timerVars == <<sessionData, tempStore, timers, nextTimer, sched, cancel>>
silentVars == <<config, silent, exchanges, pkceStore>>
signOutVars == <<signout, getSignOutURLFromSessionStorage>>
updateVars == <<update>>
pageVars == <<clientConfig, signin, url, sent, href, pkceUsed, signOutURL, checks, helper,
              signOutVars, updateVars>>
httpVars == <<isHttpHandlerEnabled, httpClientHandlers, request, handler>>
vars == <<chanVars, timerVars, silentVars, pageVars, httpVars>>

(***************************************************************************)
(* JavaScript values.  Every value is a record with a tag t, so that any   *)
(* two values can be compared.                                             *)
(***************************************************************************)
Undefined == [t |-> "undefined"]
Null == [t |-> "null"]
Num(n) == [t |-> "number", n |-> n]
Str(s) == [t |-> "string", s |-> s]
\* A string held as its sequence of characters, for the strings the code
\* converts to and from numbers.
Chars(cs) == [t |-> "string", chars |-> cs]

\* JavaScript truthiness of a value (if (x), x ? a : b, x && y).
Truthy(v) ==
    CASE v.t = "undefined" -> FALSE
      [] v.t = "null" -> FALSE
      [] v.t = "number" -> v.n # 0
      [] v.t = "string" -> IF "chars" \in DOMAIN v THEN v.chars # <<>> ELSE v.s # ""
      [] v.t = "boolean" -> v.b
      [] OTHER -> TRUE

(***************************************************************************)
(* Bounds of the model.                                                    *)
(***************************************************************************)
MaxCalls == 2
MaxResponses == 2
MaxTimers == 2
MaxExpiry == 120
MaxSignals == 2
MaxChecks == 1

(***************************************************************************)
(* Part 1: communicate (web-worker-client.ts 117-152)                     *)
(***************************************************************************)
DefaultRequestTimeout == 60000

\* config?.requestTimeout as the application may give it.
ConfigRequestTimeouts == {Undefined, Num(1500)}

\* const _requestTimeout = config?.requestTimeout ?? 60000
RequestTimeoutOf(cfg) ==
    IF cfg.t = "undefined" \/ cfg.t = "null" THEN DefaultRequestTimeout ELSE cfg.n

CallIds == 1..MaxCalls

\* JSON texts the worker serializes into ResponseMessage.data / .error, and
\* what JSON.parse makes of each.
DataTexts == {"{\"status\":200}"}
ErrorTexts == {"{\"code\":\"E1\"}"}
JSONparse(text) ==
    CASE text = "{\"status\":200}" -> [t |-> "object", status |-> 200, data |-> Undefined]
      [] text = "{\"code\":\"E1\"}" -> [t |-> "object", code |-> "E1"]

\* ResponseMessage<string>: { success, data?, blob?, error? }.  The worker fills
\* data and blob of a success and error of a failure; each may be missing.
ResponseMessages ==
    [success : {TRUE},
     data : {Undefined} \cup {Str(x) : x \in DataTexts},
     blob : {Undefined, [t |-> "blob", id |-> "b1"]},
     error : {Undefined}]
    \cup
    [success : {FALSE},
     data : {Undefined},
     blob : {Undefined},
     error : {Undefined} \cup {Str(x) : x \in ErrorTexts}]

\* _requestTimeout / 1000 as JavaScript prints it: the whole seconds and the
\* thousandths that follow the decimal point.
Seconds(ms) == <<ms \div 1000, ms % 1000>>

\* The AsgardeoSPAException the timeout rejects with.
TimeoutException(ms) ==
    [t |-> "exception",
     code |-> "WEB_WORKER_CLIENT-COM-TO-01",
     message |-> "Operation timed out.",
     description |-> <<"No response was received from the web worker for ",
                       Seconds(ms), " since dispatching the request">>]

\* A promise: pending, or settled once; resolve and reject of a settled
\* promise do nothing.
Pending == [state |-> "pending", value |-> Undefined]
Resolve(p, v) == IF p.state = "pending" THEN [state |-> "resolved", value |-> v] ELSE p
Reject(p, v) == IF p.state = "pending" THEN [state |-> "rejected", value |-> v] ELSE p

\* clearTimeout on a timer status: only an armed timer is affected.
ClearTimer(s) == IF s = "armed" THEN "cleared" ELSE s

IdleCall ==
    [phase |-> "idle", timer |-> "none", promise |-> Pending,
     received |-> 0, first |-> "none", firstResponse |-> Undefined]

\* communicate(message): a fresh MessageChannel, postMessage to the worker,
\* the timeout timer armed, port1.onmessage installed.
Communicate(c) ==
    /\ calls[c].phase = "idle"
    /\ calls' = [calls EXCEPT ![c] = [@ EXCEPT !.phase = "sent", !.timer = "armed"]]
    /\ UNCHANGED <<httpVars, requestTimeout, timerVars, silentVars, pageVars>>

\* The setTimeout callback of communicate: reject with the timeout exception.
TimeoutFires(c) ==
    /\ calls[c].timer = "armed"
    /\ calls' = [calls EXCEPT ![c] =
            [@ EXCEPT !.timer = "fired",
                      !.promise = Reject(@, TimeoutException(requestTimeout)),
                      !.first = IF @ = "none" THEN "timeout" ELSE @]]
    /\ UNCHANGED <<httpVars, requestTimeout, timerVars, silentVars, pageVars>>

\* The promise of a call after port1.onmessage ran on data: the statements
\* after clearTimeout.  Setting .data on a null responseData throws a
\* TypeError out of the handler, which settles nothing.
OnMessageSettle(p, data) ==
    IF Truthy([t |-> "boolean", b |-> data.success])
    THEN LET responseData == IF Truthy(data.data) THEN JSONparse(data.data.s) ELSE Null
         IN  IF Truthy(data.blob)
             THEN IF responseData.t = "null"
                  THEN p
                  ELSE Resolve(p, [responseData EXCEPT !.data = data.blob])
             ELSE Resolve(p, responseData)
    ELSE Reject(p, IF Truthy(data.error) THEN JSONparse(data.error.s) ELSE Null)

\* A handler that forgets clearTimeout(timer).
OnMessageTimerKept(s) == s

\* The timer of a call after port1.onmessage ran: clearTimeout(timer).
OnMessageTimer(s) == ClearTimer(s)

\* channel.port1.onmessage = ({ data }) => { ... }
OnMessage(c, data) ==
    /\ calls[c].phase = "sent"
    /\ calls[c].received < MaxResponses
    /\ calls' = [calls EXCEPT ![c] =
            [@ EXCEPT !.timer = OnMessageTimer(@),
                      !.promise = OnMessageSettle(@, data),
                      !.received = @ + 1,
                      !.first = IF @ = "none" THEN "response" ELSE @,
                      !.firstResponse = IF calls[c].first = "none" THEN data ELSE @]]
    /\ UNCHANGED <<httpVars, requestTimeout, timerVars, silentVars, pageVars>>

(***************************************************************************)
(* Part 2: SPAHelper (spa-helper.ts)                                       *)
(***************************************************************************)
Digits == <<"0", "1", "2", "3", "4", "5", "6", "7", "8", "9">>
DigitValue(ch) == (CHOOSE i \in 1..10 : Digits[i] = ch) - 1

\* The decimal text of a natural number, as String(n) and JSON.stringify(n)
\* produce it.
RECURSIVE ToDecimal(_)
ToDecimal(n) ==
    IF n < 10 THEN <<Digits[n + 1]>> ELSE Append(ToDecimal(n \div 10), Digits[(n % 10) + 1])

\* The number a sequence of decimal digits denotes.
RECURSIVE DigitsValue(_)
DigitsValue(cs) ==
    IF cs = <<>> THEN 0
    ELSE DigitsValue(SubSeq(cs, 1, Len(cs) - 1)) * 10 + DigitValue(cs[Len(cs)])

\* parseInt(string) on a string of decimal digits, optionally after "-".
parseInt(v) ==
    IF v.chars # <<>> /\ v.chars[1] = "-"
    THEN 0 - DigitsValue(Tail(v.chars))
    ELSE DigitsValue(v.chars)

\* JSON.stringify(timer) of a browser timer handle, a number.
JSONstringify(n) ==
    Chars(IF n < 0 THEN <<"-">> \o ToDecimal(0 - n) ELSE ToDecimal(n))

\* JSON.parse of the text of a number.
JSONparseNumber(v) == parseInt(v)

TimerIds == 1..MaxTimers

\* Session data as the data layer may hold it: the refresh token missing,
\* empty or set; expires_in the decimal text of the lifetime in seconds.
RefreshTokens == {Undefined, Str(""), Str("rt")}
SessionDatas ==
    [refresh_token : RefreshTokens, expires_in : {Chars(ToDecimal(5)), Chars(ToDecimal(100))}]

NoTimer == [state |-> "unset", delay |-> 0]
\* last: how the last completed call ended ("none" before any call).
IdleSched == [pc |-> "idle", timer |-> 0, last |-> "none"]
IdleCancel ==
    [pc |-> "none", arg |-> Undefined, consulted |-> FALSE,
     refreshTimer |-> -1, cleared |-> Undefined]

\* A variant that always subtracts the 10 seconds.
RefreshDelayAlwaysEarly(expires_in) == (parseInt(expires_in) - 10) * 1000

\* Lines 39-44: the delay, in ms, the refresh timer is armed with.
RefreshDelay(expires_in) ==
    LET expiryTime == parseInt(expires_in)
        time == IF expiryTime <= 10 THEN expiryTime ELSE expiryTime - 10
    IN  time * 1000

\* A variant that arms the timer whatever the session data holds.
ShouldScheduleAlways(data) == TRUE

\* Line 37: if (sessionData.refresh_token)
ShouldSchedule(data) == Truthy(data.refresh_token)

\* clearTimeout(h): an armed timer with that handle is cleared; any other
\* number is ignored.
clearTimeout(ts, h) ==
    [i \in DOMAIN ts |->
        IF i = h /\ ts[i].state = "armed" THEN [ts[i] EXCEPT !.state = "cleared"] ELSE ts[i]]

\* refreshAccessTokenAutomatically is called: it runs up to its first await,
\* this._dataLayer.getSessionData().
RefreshCall ==
    /\ sched.pc = "idle"
    /\ nextTimer <= MaxTimers
    /\ sched' = [sched EXCEPT !.pc = "getSessionData", !.timer = 0]
    /\ UNCHANGED <<httpVars, chanVars, silentVars, pageVars, sessionData, tempStore, timers, nextTimer, cancel>>

\* getSessionData() returns: lines 37-46 up to the await of
\* setTemporaryDataParameter.  With a refresh token the timer is armed by
\* setTimeout; without one the call returns.
RefreshArm ==
    /\ sched.pc = "getSessionData"
    /\ IF ShouldSchedule(sessionData)
       THEN /\ timers' = [timers EXCEPT ![nextTimer] =
                    [state |-> "armed", delay |-> RefreshDelay(sessionData.expires_in)]]
            /\ nextTimer' = nextTimer + 1
            /\ sched' = [sched EXCEPT !.pc = "setTemporaryDataParameter", !.timer = nextTimer]
       ELSE /\ sched' = [sched EXCEPT !.pc = "idle", !.last = "skipped"]
            /\ UNCHANGED <<timers, nextTimer>>
    /\ UNCHANGED <<httpVars, chanVars, silentVars, pageVars, sessionData, tempStore, cancel>>

\* A variant that keeps the handle in memory only.
RefreshPersistNothing ==
    /\ sched.pc = "setTemporaryDataParameter"
    /\ sched' = [sched EXCEPT !.pc = "idle", !.last = "armed"]
    /\ UNCHANGED <<httpVars, chanVars, silentVars, pageVars, sessionData, tempStore, timers, nextTimer, cancel>>

\* setTemporaryDataParameter(REFRESH_TOKEN_TIMER, JSON.stringify(timer)) takes
\* effect and the call returns.
RefreshPersist ==
    /\ sched.pc = "setTemporaryDataParameter"
    /\ tempStore' = JSONstringify(sched.timer)
    /\ sched' = [sched EXCEPT !.pc = "idle", !.last = "armed"]
    /\ UNCHANGED <<httpVars, chanVars, silentVars, pageVars, sessionData, timers, nextTimer, cancel>>

\* The refresh timer's callback runs: authenticationHelper.refreshAccessToken().
RefreshTimerFires(h) ==
    /\ timers[h].state = "armed"
    /\ timers' = [timers EXCEPT ![h].state = "fired"]
    /\ UNCHANGED <<httpVars, chanVars, silentVars, pageVars, sessionData, tempStore, nextTimer, sched, cancel>>

\* Lines 50-58, on the values its two reads of the store returned.
getRefreshTimeoutTimer(read1, read2) ==
    IF Truthy(read1) THEN JSONparseNumber(read2) ELSE -1

\* A variant of line 62 that tests for a missing argument, not a falsy one.
HandleGivenIfDefined(timer) == timer.t # "undefined"

\* Line 62: if (timer)
HandleGiven(timer) == Truthy(timer)

\* The arguments clearRefreshTokenTimeout is called with: none, or a number.
ClearArgs == {Undefined} \cup {Num(h) : h \in (-1)..MaxTimers}

\* clearRefreshTokenTimeout(timer) is called: with a handle it clears it and
\* returns; without one it starts getRefreshTimeoutTimer, up to the first
\* await of getTemporaryDataParameter.
ClearCall(arg) ==
    /\ cancel.pc \in {"none", "done"}
    /\ IF HandleGiven(arg)
       THEN /\ timers' = clearTimeout(timers, arg.n)
            /\ cancel' = [IdleCancel EXCEPT !.arg = arg, !.cleared = arg, !.pc = "done"]
       ELSE /\ cancel' = [IdleCancel EXCEPT !.arg = arg, !.consulted = TRUE, !.pc = "read1"]
            /\ UNCHANGED timers
    /\ UNCHANGED <<httpVars, chanVars, silentVars, pageVars, sessionData, tempStore, nextTimer, sched>>

\* The first getTemporaryDataParameter returns (line 51): nothing stored makes
\* getRefreshTimeoutTimer return -1 and the cancel end; otherwise the second
\* read is started.
ClearRead1 ==
    /\ cancel.pc = "read1"
    /\ IF Truthy(tempStore)
       THEN cancel' = [cancel EXCEPT !.pc = "read2"]
       ELSE cancel' = [cancel EXCEPT !.pc = "done",
                                     !.refreshTimer = getRefreshTimeoutTimer(tempStore, tempStore)]
    /\ UNCHANGED <<httpVars, chanVars, silentVars, pageVars, sessionData, tempStore, timers, nextTimer, sched>>

\* The second getTemporaryDataParameter returns (lines 52-54) and
\* getRefreshTimeoutTimer returns the parsed handle.
ClearRead2 ==
    /\ cancel.pc = "read2"
    /\ cancel' = [cancel EXCEPT !.pc = "resume",
                                !.refreshTimer = getRefreshTimeoutTimer(tempStore, tempStore)]
    /\ UNCHANGED <<httpVars, chanVars, silentVars, pageVars, sessionData, tempStore, timers, nextTimer, sched>>

\* A cancel that also removes the persisted record.
ClearResumeForgets ==
    /\ cancel.pc = "resume"
    /\ IF cancel.refreshTimer # -1
       THEN /\ timers' = clearTimeout(timers, cancel.refreshTimer)
            /\ cancel' = [cancel EXCEPT !.pc = "done", !.cleared = Num(cancel.refreshTimer)]
            /\ tempStore' = Undefined
       ELSE /\ cancel' = [cancel EXCEPT !.pc = "done"]
            /\ UNCHANGED <<timers, tempStore>>
    /\ UNCHANGED <<httpVars, chanVars, silentVars, pageVars, sessionData, nextTimer, sched>>

\* Lines 68-72: clearRefreshTokenTimeout resumes with refreshTimer.
ClearResume ==
    /\ cancel.pc = "resume"
    /\ IF cancel.refreshTimer # -1
       THEN /\ timers' = clearTimeout(timers, cancel.refreshTimer)
            /\ cancel' = [cancel EXCEPT !.pc = "done", !.cleared = Num(cancel.refreshTimer)]
       ELSE /\ cancel' = [cancel EXCEPT !.pc = "done"]
            /\ UNCHANGED timers
    /\ UNCHANGED <<httpVars, chanVars, silentVars, pageVars, sessionData, tempStore, nextTimer, sched>>

\* The rest of the application replaces the session data (sign-in, refresh,
\* sign-out).
SetSessionData(data) ==
    /\ data # sessionData
    /\ sessionData' = data
    /\ UNCHANGED <<httpVars, chanVars, silentVars, pageVars, tempStore, timers, nextTimer, sched, cancel>>

(***************************************************************************)
(* Part 3: trySignInSilently and requestAccessToken                        *)
(* (web-worker-client.ts 362-448, 475-523).  A round trip through          *)
(* communicate is one step that succeeds or fails (a remote error or the   *)
(* request timeout).                                                       *)
(***************************************************************************)
CeilingMs == 10000

False == [t |-> "boolean", b |-> FALSE]
EmptyUserInfo == [t |-> "object", sub |-> ""]
\* The BasicUserInfo the worker returns for the exchange of a code.
UserInfoOf(code) == [t |-> "object", sub |-> code]
RemoteError(op) == [t |-> "object", code |-> op]

\* AuthenticationUtils.extractPKCEKeyFromStateParam of SILENT_SIGN_IN_STATE.
SilentPKCEKey == "pkce_code_verifier_silent"

SignalIds == 1..MaxSignals

\* The postMessage events the window receives that concern the listener:
\* CHECK_SESSION_SIGNED_OUT, and CHECK_SESSION_SIGNED_IN with or without a code.
Signals ==
    {[type |-> "CHECK_SESSION_SIGNED_OUT", code |-> Undefined]} \cup
    [type : {"CHECK_SESSION_SIGNED_IN"}, code : {Undefined, Str(""), Str("c1"), Str("c2")}]

IdleSilent ==
    [pc |-> "idle", promise |-> Pending, ceiling |-> "none", delay |-> 0,
     listener |-> FALSE, signals |-> 0, enablePKCE |-> FALSE,
     first |-> "none", firstArmed |-> FALSE]
NoExchange ==
    [pc |-> "unused", code |-> Undefined, pkce |-> Undefined,
     beforeCeiling |-> FALSE, result |-> Pending]

\* The configurations the worker may hold.
Configs == [enablePKCE : BOOLEAN]

SilentIdle(cfg) ==
    /\ config = cfg
    /\ silent = IdleSilent
    /\ exchanges = [x \in SignalIds |-> NoExchange]
    /\ pkceStore = {}

\* trySignInSilently is called: it runs up to await getConfigData().
SilentCall ==
    /\ silent.pc = "idle"
    /\ silent' = [silent EXCEPT !.pc = "getConfigData"]
    /\ UNCHANGED <<httpVars, chanVars, timerVars, pageVars, config, exchanges, pkceStore>>

\* getConfigData() settles (line 363).  A failure rejects the call.  In the
\* iframe role (SPAUtils.isInitializedSilentSignIn()) the call goes on to
\* receivePromptNoneResponse; in the host role GET_AUTH_URL is sent.
SilentConfig(ok, inIFrame) ==
    /\ silent.pc = "getConfigData"
    /\ silent' =
         IF ~ok
         THEN [silent EXCEPT !.pc = "done", !.promise = Reject(@, RemoteError("GET_CONFIG_DATA"))]
         ELSE IF inIFrame
         THEN [silent EXCEPT !.pc = "receivePromptNoneResponse"]
         ELSE [silent EXCEPT !.pc = "getAuthURL", !.enablePKCE = config.enablePKCE]
    /\ UNCHANGED <<httpVars, chanVars, timerVars, pageVars, config, exchanges, pkceStore>>

\* Iframe role, lines 367-377: receivePromptNoneResponse() returns and the
\* call resolves with the empty user info.
SilentIFrame ==
    /\ silent.pc = "receivePromptNoneResponse"
    /\ silent' = [silent EXCEPT !.pc = "done", !.promise = Resolve(@, EmptyUserInfo)]
    /\ UNCHANGED <<httpVars, chanVars, timerVars, pageVars, config, exchanges, pkceStore>>

\* A ceiling callback that rejects.
CeilingSettleRejects(p) == Reject(p, RemoteError("timeout"))

\* Line 418: the ceiling timer's callback, resolve(false).
CeilingSettle(p) == Resolve(p, False)

\* The GET_AUTH_URL round trip settles (lines 395-447).  On failure, or when
\* the prompt-none iframe is missing (assigning its src throws), the call
\* rejects.  Otherwise the verifier is stored when PKCE is enabled, the
\* iframe's src is set, the ceiling timer is armed and the listener added.
SilentAuthURL(ok, pkce, hasIFrame) ==
    /\ silent.pc = "getAuthURL"
    /\ IF ~ok
       THEN /\ silent' = [silent EXCEPT !.pc = "done",
                                        !.promise = Reject(@, RemoteError("GET_AUTH_URL"))]
            /\ UNCHANGED pkceStore
       ELSE /\ pkceStore' = IF Truthy(pkce) /\ silent.enablePKCE
                            THEN pkceStore \cup {SilentPKCEKey}
                            ELSE pkceStore
            /\ silent' =
                 IF hasIFrame
                 THEN [silent EXCEPT !.pc = "listening", !.ceiling = "armed",
                                     !.delay = CeilingMs, !.listener = TRUE]
                 ELSE [silent EXCEPT !.pc = "done",
                                     !.promise = Reject(@, RemoteError("TypeError"))]
    /\ UNCHANGED <<httpVars, chanVars, timerVars, pageVars, config, exchanges>>

\* The ceiling timer fires (lines 417-419).
CeilingFires ==
    /\ silent.ceiling = "armed"
    /\ silent' = [silent EXCEPT !.ceiling = "fired", !.promise = CeilingSettle(@)]
    /\ UNCHANGED <<httpVars, chanVars, timerVars, pageVars, config, exchanges, pkceStore>>

\* A signed-out handler that leaves the ceiling timer armed.
OnSignedOutKeepsCeiling(s) ==
    [s EXCEPT !.listener = FALSE, !.promise = Resolve(@, False)]

\* Lines 424-428, CHECK_SESSION_SIGNED_OUT: the listener is removed, the
\* ceiling timer cleared and the call resolved false.
OnSignedOut(s) ==
    [s EXCEPT !.listener = FALSE, !.ceiling = ClearTimer(@), !.promise = Resolve(@, False)]

\* The handler's run is counted; the first one's type is kept, and whether
\* the ceiling timer was still armed when it ran.
Received(s, e) ==
    [s EXCEPT !.signals = @ + 1,
              !.first = IF s.signals = 0 THEN e.type ELSE @,
              !.firstArmed = IF s.signals = 0 THEN s.ceiling = "armed" ELSE @]

\* listenToPromptNoneIFrame runs on a message event (lines 421-444).
\* Signed out: the listener is removed, the ceiling cleared, the call
\* resolved false.  Signed in with a code: requestAccessToken is called and
\* runs up to await getConfigData(); the listener and the ceiling stay.
Signal(x, e) ==
    /\ silent.listener
    /\ silent.signals < MaxSignals
    /\ x = silent.signals + 1
    /\ IF e.type = "CHECK_SESSION_SIGNED_OUT"
       THEN /\ silent' = OnSignedOut(Received(silent, e))
            /\ UNCHANGED exchanges
       ELSE /\ silent' = Received(silent, e)
            /\ exchanges' =
                 IF Truthy(e.code)
                 THEN [exchanges EXCEPT ![x] =
                        [NoExchange EXCEPT !.pc = "getConfigData", !.code = e.code,
                                           !.beforeCeiling = (silent.ceiling = "armed")]]
                 ELSE exchanges
    /\ UNCHANGED <<httpVars, chanVars, timerVars, pageVars, config, pkceStore>>

\* requestAccessToken, lines 480-497: getConfigData() returned; the verifier
\* is read and removed when PKCE is enabled, REQUEST_ACCESS_TOKEN is sent.
ExchangeSend(x) ==
    /\ exchanges[x].pc = "getConfigData"
    /\ exchanges' = [exchanges EXCEPT ![x] =
            [@ EXCEPT !.pc = "REQUEST_ACCESS_TOKEN",
                      !.pkce = IF config.enablePKCE /\ SilentPKCEKey \in pkceStore
                               THEN Str("verifier") ELSE Undefined]]
    /\ pkceStore' = IF config.enablePKCE THEN pkceStore \ {SilentPKCEKey} ELSE pkceStore
    /\ UNCHANGED <<httpVars, chanVars, timerVars, pageVars, config, silent>>

\* Lines 498-503: REQUEST_ACCESS_TOKEN resolved; GET_SIGN_OUT_URL is sent.
ExchangeToken(x) ==
    /\ exchanges[x].pc = "REQUEST_ACCESS_TOKEN"
    /\ exchanges' = [exchanges EXCEPT ![x] = [@ EXCEPT !.pc = "GET_SIGN_OUT_URL"]]
    /\ UNCHANGED <<httpVars, chanVars, timerVars, pageVars, config, silent, pkceStore>>

\* The listener's handlers on the promise of requestAccessToken (lines
\* 432-442): the listener is removed, the call settled with the outcome, and
\* in finally the ceiling timer is cleared.
ExchangeSettled(s, result) ==
    [s EXCEPT !.listener = FALSE,
              !.promise = IF result.state = "resolved"
                          THEN Resolve(@, result.value)
                          ELSE Reject(@, result.value),
              !.ceiling = ClearTimer(@)]

\* Lines 504-514: GET_SIGN_OUT_URL resolved; the sign-out URL is cached,
\* START_AUTO_REFRESH_TOKEN is sent and requestAccessToken resolves with the
\* user info of the exchange.
ExchangeDone(x) ==
    /\ exchanges[x].pc = "GET_SIGN_OUT_URL"
    /\ LET result == Resolve(Pending, UserInfoOf(exchanges[x].code.s))
       IN  /\ exchanges' = [exchanges EXCEPT ![x] = [@ EXCEPT !.pc = "done", !.result = result]]
           /\ silent' = ExchangeSettled(silent, result)
    /\ UNCHANGED <<httpVars, chanVars, timerVars, pageVars, config, pkceStore>>

\* A round trip of requestAccessToken fails (GET_CONFIG_DATA,
\* REQUEST_ACCESS_TOKEN or GET_SIGN_OUT_URL): requestAccessToken rejects with
\* its error.
ExchangeFails(x) ==
    /\ exchanges[x].pc \in {"getConfigData", "REQUEST_ACCESS_TOKEN", "GET_SIGN_OUT_URL"}
    /\ LET result == Reject(Pending, RemoteError(exchanges[x].pc))
       IN  /\ exchanges' = [exchanges EXCEPT ![x] = [@ EXCEPT !.pc = "failed", !.result = result]]
           /\ silent' = ExchangeSettled(silent, result)
    /\ UNCHANGED <<httpVars, chanVars, timerVars, pageVars, config, pkceStore>>

(***************************************************************************)
(* Part 4: signIn with getAuthorizationURL, requestAccessToken and         *)
(* checkSession as it calls them (web-worker-client.ts 340-353, 456-627)   *)
(***************************************************************************)
\* a ?? b
Coalesce(v, d) == IF v.t = "undefined" \/ v.t = "null" THEN d ELSE v

ResponseModes == {"query", "form_post"}

\* The configurations the application may construct the client with.
ClientConfigs ==
    [enablePKCE : BOOLEAN, enableOIDCSessionManagement : BOOLEAN, responseMode : ResponseModes]

\* URLSearchParams.get of the parameters signIn reads: null when absent.
NoParams ==
    [error |-> Null, error_description |-> Null, code |-> Null,
     session_state |-> Null, state |-> Null]

\* The URLs a page may be loaded with.
URLs ==
    { NoParams,
      [NoParams EXCEPT !.error = Str("access_denied"), !.error_description = Str("denied")],
      [NoParams EXCEPT !.error = Str("access_denied")],
      [NoParams EXCEPT !.error = Str(""), !.error_description = Str("denied")],
      [NoParams EXCEPT !.code = Str("c1"), !.session_state = Str("ss1"), !.state = Str("st1")],
      [NoParams EXCEPT !.code = Str("c1")],
      [NoParams EXCEPT !.code = Str("")],
      [NoParams EXCEPT !.error = Str("access_denied"), !.code = Str("c1"),
                       !.state = Str("st1")] }

\* signIn(params?, authorizationCode?, sessionState?, state?).
NoArgs == [authorizationCode |-> Undefined, sessionState |-> Undefined, state |-> Undefined]
SignInArgs ==
    { NoArgs,
      [authorizationCode |-> Str(""), sessionState |-> Str("ss2"), state |-> Str("st1")],
      [authorizationCode |-> Str("c2"), sessionState |-> Str("ss2"), state |-> Str("st1")],
      [authorizationCode |-> Str("c2"), sessionState |-> Undefined, state |-> Undefined] }

\* AuthenticationUtils.extractPKCEKeyFromStateParam.
extractPKCEKeyFromStateParam(state) == "pkce_code_verifier_" \o state

\* The state parameter of the authorization URL the worker returns.
AuthURLStates == {Str("st1")}

\* The user info GET_BASIC_USER_INFO returns.
BasicUserInfo == UserInfoOf("user")

\* new AsgardeoSPAException("WEB_WORKER_CLIENT-SI-BE", ..., error, errorDescription ?? "")
SignInError(error, errorDescription) ==
    [t |-> "object", code |-> "WEB_WORKER_CLIENT-SI-BE", message |-> error,
     description |-> Coalesce(errorDescription, Str(""))]

NoCode == [source |-> "none", code |-> Undefined, sessionState |-> Undefined, state |-> Undefined]

IdleSignIn ==
    [pc |-> "idle", promise |-> Pending, args |-> NoArgs, config |-> Undefined,
     error |-> Undefined, errorDescription |-> Undefined, authenticated |-> "unknown", resolved |-> NoCode,
     pkce |-> Undefined, acked |-> {}, prevURLError |-> FALSE, signOutURL |-> Undefined]

\* The promises signIn rejects at line 566.
IsURLError(p) == p.state = "rejected" /\ p.value.code = "WEB_WORKER_CLIENT-SI-BE"

\* signIn is called on a page that is not navigating away: it runs up to
\* await getConfigData() (line 536).
SignInCall(args) ==
    /\ signin.pc \in {"idle", "done"}
    /\ href = Undefined
    /\ signin' = [IdleSignIn EXCEPT !.pc = "getConfigData", !.args = args,
                                    !.prevURLError = IsURLError(signin.promise)]
    /\ sent' = <<"GET_CONFIG_DATA">>
    /\ UNCHANGED <<httpVars, chanVars, timerVars, silentVars, clientConfig, url, href, pkceUsed,
                   signOutURL, checks, helper, signOutVars, updateVars>>

\* A round trip of the call failed: the call rejects with the error.
SignInFails(s, op) == [s EXCEPT !.pc = "done", !.promise = Reject(@, RemoteError(op))]

\* The acknowledgement of a message arrived.
Acked(s, op) == [s EXCEPT !.acked = @ \cup {op}]

\* Line 536 returns: the call awaits receivePromptNoneResponse (line 538).
SignInConfig(ok) ==
    /\ signin.pc = "getConfigData"
    /\ signin' = IF ok
                 THEN [Acked(signin, "GET_CONFIG_DATA") EXCEPT
                          !.pc = "receivePromptNoneResponse", !.config = config]
                 ELSE SignInFails(signin, "GET_CONFIG_DATA")
    /\ UNCHANGED <<httpVars, chanVars, timerVars, silentVars, clientConfig, url, sent, href, pkceUsed,
                   signOutURL, checks, helper, signOutVars, updateVars>>

\* Line 559, if (error).
HasError(error) == Truthy(error)

\* A strip that deletes the error parameter only.
StripErrorOnly(u) == [u EXCEPT !.error = Null]

\* Lines 560-564: both parameters are deleted and the URL pushed.
StripError(u) == [u EXCEPT !.error = Null, !.error_description = Null]

\* Lines 538-577.  receivePromptNoneResponse returned.  If it says to stop,
\* the call resolves with the empty user info.  Otherwise the error
\* parameters are read; with an error the URL is stripped and the call
\* rejects, without one IS_AUTHENTICATED is sent.
SignInPromptNone(shouldStopContinue) ==
    /\ signin.pc = "receivePromptNoneResponse"
    /\ IF shouldStopContinue
       THEN /\ signin' = [signin EXCEPT !.pc = "done", !.promise = Resolve(@, EmptyUserInfo)]
            /\ UNCHANGED <<url, sent>>
       ELSE IF HasError(url.error)
       THEN /\ url' = StripError(url)
            /\ signin' = [signin EXCEPT
                            !.pc = "done", !.error = url.error,
                            !.errorDescription = url.error_description,
                            !.promise = Reject(@, SignInError(url.error, url.error_description))]
            /\ UNCHANGED sent
       ELSE /\ signin' = [signin EXCEPT !.pc = "isAuthenticated", !.error = url.error,
                                        !.errorDescription = url.error_description]
            /\ sent' = Append(sent, "IS_AUTHENTICATED")
            /\ UNCHANGED url
    /\ UNCHANGED <<httpVars, chanVars, timerVars, silentVars, clientConfig, href, pkceUsed,
                   signOutURL, checks, helper, signOutVars, updateVars>>

\* A resolution that takes the explicit code in every response mode.
ResolveCodeFromArgs(cfg, args, u) ==
    IF Truthy(args.authorizationCode)
    THEN [source |-> "args", code |-> args.authorizationCode,
          sessionState |-> Coalesce(args.sessionState, Str("")),
          state |-> Coalesce(args.state, Str(""))]
    ELSE [source |-> "url", code |-> Coalesce(u.code, Str("")),
          sessionState |-> Coalesce(u.session_state, Str("")),
          state |-> Coalesce(u.state, Str(""))]

\* Lines 592-602: the code, session state and state signIn goes on with.
ResolveCode(cfg, args, u) ==
    IF cfg.responseMode = "form_post" /\ Truthy(args.authorizationCode)
    THEN [source |-> "args", code |-> args.authorizationCode,
          sessionState |-> Coalesce(args.sessionState, Str("")),
          state |-> Coalesce(args.state, Str(""))]
    ELSE [source |-> "url", code |-> Coalesce(u.code, Str("")),
          sessionState |-> Coalesce(u.session_state, Str("")),
          state |-> Coalesce(u.state, Str(""))]

\* SPAUtils.removeAuthorizationCode: the code is cleared from the URL.
removeAuthorizationCode(u) == [u EXCEPT !.code = Null]

\* An authenticated branch that skips START_AUTO_REFRESH_TOKEN.
OnAuthenticatedNoRefresh(s) ==
    [s EXCEPT !.pc = "getBasicUserInfo", !.authenticated = "true"]

\* Lines 577-578: authenticated, the call awaits startAutoRefreshToken().
OnAuthenticated(s) ==
    [s EXCEPT !.pc = "startAutoRefreshToken", !.authenticated = "true"]

\* The message a call sends on arriving at a position.
MessageAt(pc) ==
    CASE pc = "startAutoRefreshToken" -> "START_AUTO_REFRESH_TOKEN"
      [] pc = "getBasicUserInfo" -> "GET_BASIC_USER_INFO"
      [] pc = "requestAccessToken" -> "GET_CONFIG_DATA"
      [] pc = "getAuthorizationURL" -> "GET_AUTH_URL"

\* Lines 577-608.  IS_AUTHENTICATED settled.  Authenticated:
\* START_AUTO_REFRESH_TOKEN is sent.  Not authenticated: the code is resolved
\* and, when read from the URL, cleared from it; with a code
\* requestAccessToken is called and runs up to await getConfigData(),
\* without one getAuthorizationURL sends GET_AUTH_URL.
SignInAuthenticated(ok, response) ==
    /\ signin.pc = "isAuthenticated"
    /\ IF ~ok
       THEN /\ signin' = SignInFails(signin, "IS_AUTHENTICATED")
            /\ UNCHANGED <<url, sent>>
       ELSE IF response
       THEN /\ signin' = OnAuthenticated(Acked(signin, "IS_AUTHENTICATED"))
            /\ sent' = Append(sent, MessageAt(signin'.pc))
            /\ UNCHANGED url
       ELSE LET r == ResolveCode(signin.config, signin.args, url)
            IN  /\ signin' = [Acked(signin, "IS_AUTHENTICATED") EXCEPT
                                !.authenticated = "false", !.resolved = r,
                                !.pc = IF Truthy(r.code) THEN "requestAccessToken"
                                                         ELSE "getAuthorizationURL"]
                /\ url' = IF r.source = "url" THEN removeAuthorizationCode(url) ELSE url
                /\ sent' = Append(sent, MessageAt(signin'.pc))
    /\ UNCHANGED <<httpVars, chanVars, timerVars, silentVars, clientConfig, href, pkceUsed,
                   signOutURL, checks, helper, signOutVars, updateVars>>

\* checkSession() is called when session management is enabled: it sends
\* GET_OIDC_SERVICE_ENDPOINTS and goes on by itself (lines 340-341).
ChecksStarted(cfg) == IF cfg.enableOIDCSessionManagement THEN 1 ELSE 0
CheckMessages(cfg) ==
    IF cfg.enableOIDCSessionManagement THEN <<"GET_OIDC_SERVICE_ENDPOINTS">> ELSE <<>>

\* Lines 578-585: START_AUTO_REFRESH_TOKEN settled; checkSession is started
\* if enabled and GET_BASIC_USER_INFO is sent.
SignInAutoRefresh(ok) ==
    /\ signin.pc = "startAutoRefreshToken"
    /\ IF ~ok
       THEN /\ signin' = SignInFails(signin, "START_AUTO_REFRESH_TOKEN")
            /\ UNCHANGED <<sent, checks>>
       ELSE /\ checks + ChecksStarted(signin.config) <= MaxChecks
            /\ signin' = [Acked(signin, "START_AUTO_REFRESH_TOKEN") EXCEPT
                            !.pc = "getBasicUserInfo"]
            /\ checks' = checks + ChecksStarted(signin.config)
            /\ sent' = sent \o CheckMessages(signin.config) \o <<"GET_BASIC_USER_INFO">>
    /\ UNCHANGED <<httpVars, chanVars, timerVars, silentVars, clientConfig, url, href, pkceUsed,
                   signOutURL, helper, signOutVars, updateVars>>

\* Line 585: GET_BASIC_USER_INFO settled and settles the call.
SignInUserInfo(ok) ==
    /\ signin.pc = "getBasicUserInfo"
    /\ signin' = IF ok
                 THEN [Acked(signin, "GET_BASIC_USER_INFO") EXCEPT
                          !.pc = "done", !.promise = Resolve(@, BasicUserInfo)]
                 ELSE SignInFails(signin, "GET_BASIC_USER_INFO")
    /\ UNCHANGED <<httpVars, chanVars, timerVars, silentVars, clientConfig, url, sent, href, pkceUsed,
                   signOutURL, checks, helper, signOutVars, updateVars>>

\* SPAUtils.getPKCE: the verifier stored under the key, if any.
getPKCE(store, key) == IF key \in store THEN Str("verifier") ELSE Undefined

\* A requestAccessToken that leaves the verifier in storage.
PKCEAfterReadKept(cfg, store, key) == store

\* Line 495, config.enablePKCE && SPAUtils.removePKCE(pkceKey).
PKCEAfterRead(cfg, store, key) == IF cfg.enablePKCE THEN store \ {key} ELSE store

\* requestAccessToken, lines 480-497: getConfigData() returned; the verifier
\* is read and removed when PKCE is enabled, REQUEST_ACCESS_TOKEN is sent.
SignInExchangeSend(ok) ==
    /\ signin.pc = "requestAccessToken"
    /\ IF ~ok
       THEN /\ signin' = SignInFails(signin, "GET_CONFIG_DATA")
            /\ UNCHANGED <<sent, pkceStore, pkceUsed>>
       ELSE LET pkceKey == extractPKCEKeyFromStateParam(signin.resolved.state.s)
                pkce == IF config.enablePKCE THEN getPKCE(pkceStore, pkceKey) ELSE Undefined
            IN  /\ signin' = [signin EXCEPT !.pc = "REQUEST_ACCESS_TOKEN",
                                            !.config = config, !.pkce = pkce]
                /\ pkceStore' = PKCEAfterRead(config, pkceStore, pkceKey)
                /\ pkceUsed' = IF pkce = Undefined THEN pkceUsed ELSE pkceUsed \cup {pkceKey}
                /\ sent' = Append(sent, "REQUEST_ACCESS_TOKEN")
    /\ UNCHANGED <<httpVars, chanVars, timerVars, config, silent, exchanges, clientConfig, url, href,
                   signOutURL, checks, helper, signOutVars, updateVars>>

\* Lines 497-503: REQUEST_ACCESS_TOKEN settled; GET_SIGN_OUT_URL is sent.
SignInExchangeToken(ok) ==
    /\ signin.pc = "REQUEST_ACCESS_TOKEN"
    /\ IF ok
       THEN /\ signin' = [Acked(signin, "REQUEST_ACCESS_TOKEN") EXCEPT !.pc = "GET_SIGN_OUT_URL"]
            /\ sent' = Append(sent, "GET_SIGN_OUT_URL")
       ELSE /\ signin' = SignInFails(signin, "REQUEST_ACCESS_TOKEN")
            /\ UNCHANGED sent
    /\ UNCHANGED <<httpVars, chanVars, timerVars, silentVars, clientConfig, url, href, pkceUsed,
                   signOutURL, checks, helper, signOutVars, updateVars>>

\* The sign-out URL GET_SIGN_OUT_URL and SIGN_OUT return.
WorkerSignOutURL == Str("https://idp/oidc/logout?id_token_hint=t")

\* An exchange that resolves without caching the sign-out URL and without
\* starting the automatic refresh.
SignInExchangeDoneBare(ok, signOutUrl) ==
    /\ signin.pc = "GET_SIGN_OUT_URL"
    /\ IF ~ok
       THEN signin' = SignInFails(signin, "GET_SIGN_OUT_URL")
       ELSE signin' = [Acked(signin, "GET_SIGN_OUT_URL") EXCEPT
                         !.pc = "done", !.signOutURL = signOutUrl,
                         !.promise = Resolve(@, UserInfoOf(signin.resolved.code.s))]
    /\ UNCHANGED <<sent, checks, signOutURL>>
    /\ UNCHANGED <<httpVars, chanVars, timerVars, silentVars, clientConfig, url, href, pkceUsed,
                   helper, signOutVars, updateVars>>

\* Lines 503-514: GET_SIGN_OUT_URL settled with the URL signOutUrl; it is
\* cached, checkSession started if enabled, START_AUTO_REFRESH_TOKEN sent
\* without waiting, and the call resolves with the user info of the exchange.
\* A failure rejects the call.
SignInExchangeDone(ok, signOutUrl) ==
    /\ signin.pc = "GET_SIGN_OUT_URL"
    /\ IF ~ok
       THEN /\ signin' = SignInFails(signin, "GET_SIGN_OUT_URL")
            /\ UNCHANGED <<sent, checks, signOutURL>>
       ELSE /\ checks + ChecksStarted(signin.config) <= MaxChecks
            /\ signOutURL' = signOutUrl
            /\ checks' = checks + ChecksStarted(signin.config)
            /\ sent' = sent \o CheckMessages(signin.config) \o <<"START_AUTO_REFRESH_TOKEN">>
            /\ signin' = [Acked(signin, "GET_SIGN_OUT_URL") EXCEPT
                            !.pc = "done", !.signOutURL = signOutUrl,
                            !.promise = Resolve(@, UserInfoOf(signin.resolved.code.s))]
    /\ UNCHANGED <<httpVars, chanVars, timerVars, silentVars, clientConfig, url, href, pkceUsed,
                   helper, signOutVars, updateVars>>

\* The authorization URL the worker returns.
AuthorizationURL == Str("https://idp/oauth2/authorize")

\* getAuthorizationURL, lines 462-472, and lines 608-612: GET_AUTH_URL
\* settled.  The verifier is stored under the key of the URL's state when the
\* response carries one and the closure's config enables PKCE; the browser
\* is sent to the URL and the call awaits waitTillPageRedirect().
SignInAuthURL(ok, pkce, state) ==
    /\ signin.pc = "getAuthorizationURL"
    /\ IF ~ok
       THEN /\ signin' = SignInFails(signin, "GET_AUTH_URL")
            /\ UNCHANGED <<href, pkceStore, pkceUsed>>
       ELSE LET pkceKey == extractPKCEKeyFromStateParam(Coalesce(state, Str("")).s)
                stored == Truthy(pkce) /\ clientConfig.enablePKCE
            IN  /\ pkceStore' = IF stored THEN pkceStore \cup {pkceKey} ELSE pkceStore
                /\ pkceUsed' = IF stored THEN pkceUsed \ {pkceKey} ELSE pkceUsed
                /\ href' = AuthorizationURL
                /\ signin' = [Acked(signin, "GET_AUTH_URL") EXCEPT !.pc = "waitTillPageRedirect"]
    /\ UNCHANGED <<httpVars, chanVars, timerVars, config, silent, exchanges, clientConfig, url, sent,
                   signOutURL, checks, helper, signOutVars, updateVars>>

\* Lines 612-622: waitTillPageRedirect() returned; the call resolves with the
\* empty user info.
SignInRedirected ==
    /\ signin.pc = "waitTillPageRedirect"
    /\ signin' = [signin EXCEPT !.pc = "done", !.promise = Resolve(@, EmptyUserInfo)]
    /\ UNCHANGED <<httpVars, chanVars, timerVars, silentVars, clientConfig, url, sent, href, pkceUsed,
                   signOutURL, checks, helper, signOutVars, updateVars>>

\* checkSession, lines 341-352: its two round trips settled; on success the
\* session management helper is initialized.
CheckSessionSettles(ok) ==
    /\ checks > 0
    /\ checks' = checks - 1
    /\ helper' = IF ok THEN [helper EXCEPT !.initialized = TRUE] ELSE helper
    /\ UNCHANGED <<httpVars, chanVars, timerVars, silentVars, clientConfig, signin, url, sent, href,
                   pkceUsed, signOutURL, signOutVars, updateVars>>

IdleHelper == [initialized |-> FALSE]
(***************************************************************************)
(* Part 5: signOut and requestCustomGrant (web-worker-client.ts 162-179,   *)
(* 634-664)                                                                *)
(***************************************************************************)
True == [t |-> "boolean", b |-> TRUE]

\* grant: the requestCustomGrant call in flight, by its
\* preventSignOutURLUpdate parameter.
IdleSignOut ==
    [pc |-> "idle", promise |-> Pending, authenticated |-> "unknown",
     fromStorage |-> FALSE, source |-> "none", grant |-> "none", granted |-> "none"]

\* requestCustomGrant(requestParams) sends REQUEST_CUSTOM_GRANT (line 168).
GrantCall(preventSignOutURLUpdate) ==
    /\ signout.grant = "none"
    /\ href = Undefined
    /\ signout' = [signout EXCEPT !.grant = IF preventSignOutURLUpdate THEN "prevent"
                                                                        ELSE "update"]
    /\ UNCHANGED <<httpVars, chanVars, timerVars, silentVars, clientConfig, signin, url, sent, href,
                   pkceUsed, signOutURL, checks, helper, getSignOutURLFromSessionStorage,
                   updateVars>>

\* A custom grant that sets the flag also when the round trip failed.
GrantSettlesAlways(ok) ==
    /\ signout.grant # "none"
    /\ signout' = [signout EXCEPT !.grant = "none",
                                  !.granted = IF ok THEN "resolved" ELSE "rejected"]
    /\ getSignOutURLFromSessionStorage' =
          (getSignOutURLFromSessionStorage \/ signout.grant = "prevent")
    /\ UNCHANGED <<httpVars, chanVars, timerVars, silentVars, clientConfig, signin, url, sent, href,
                   pkceUsed, signOutURL, checks, helper, updateVars>>

\* Lines 169-177: REQUEST_CUSTOM_GRANT settled; on success with
\* preventSignOutURLUpdate the flag is set and the call resolves, on failure
\* it rejects.
GrantSettles(ok) ==
    /\ signout.grant # "none"
    /\ signout' = [signout EXCEPT !.grant = "none",
                                  !.granted = IF ok THEN "resolved" ELSE "rejected"]
    /\ getSignOutURLFromSessionStorage' =
          (getSignOutURLFromSessionStorage \/ (ok /\ signout.grant = "prevent"))
    /\ UNCHANGED <<httpVars, chanVars, timerVars, silentVars, clientConfig, signin, url, sent, href,
                   pkceUsed, signOutURL, checks, helper, updateVars>>

\* signOut() sends IS_AUTHENTICATED (line 635).
SignOutCall ==
    /\ signout.pc \in {"idle", "done"}
    /\ href = Undefined
    /\ signout' = [IdleSignOut EXCEPT !.pc = "isAuthenticated", !.grant = signout.grant,
                                      !.granted = signout.granted]
    /\ sent' = <<"IS_AUTHENTICATED">>
    /\ UNCHANGED <<httpVars, chanVars, timerVars, silentVars, clientConfig, signin, url, href,
                   pkceUsed, signOutURL, checks, helper, getSignOutURLFromSessionStorage,
                   updateVars>>

\* A test that forgets the flag.
AsksWorkerIgnoresFlag(response, fromStorage) == response

\* A test with the flag inverted.
AsksWorkerFlagInverted(response, fromStorage) == response /\ fromStorage

\* Line 637, response && !_getSignOutURLFromSessionStorage.
AsksWorker(response, fromStorage) == response /\ ~fromStorage

\* Lines 636-656: IS_AUTHENTICATED settled.  A failure rejects the call.
\* Authenticated with the flag clear: SIGN_OUT is sent.  Otherwise the
\* browser is sent to the cached sign-out URL and the call awaits
\* waitTillPageRedirect().
SignOutAuthenticated(ok, response) ==
    /\ signout.pc = "isAuthenticated"
    /\ IF ~ok
       THEN /\ signout' = [signout EXCEPT !.pc = "done",
                              !.promise = Reject(@, RemoteError("IS_AUTHENTICATED"))]
            /\ UNCHANGED <<sent, href>>
       ELSE LET s == [signout EXCEPT
                        !.authenticated = IF response THEN "true" ELSE "false",
                        !.fromStorage = getSignOutURLFromSessionStorage]
            IN  IF AsksWorker(response, getSignOutURLFromSessionStorage)
                THEN /\ signout' = [s EXCEPT !.pc = "SIGN_OUT"]
                     /\ sent' = Append(sent, "SIGN_OUT")
                     /\ UNCHANGED href
                ELSE /\ signout' = [s EXCEPT !.pc = "waitTillPageRedirect",
                                             !.source = "cached"]
                     /\ href' = signOutURL
                     /\ UNCHANGED sent
    /\ UNCHANGED <<httpVars, chanVars, timerVars, silentVars, clientConfig, signin, url, pkceUsed,
                   signOutURL, checks, helper, getSignOutURLFromSessionStorage, updateVars>>

\* Lines 642-652: SIGN_OUT settled.  On success the browser is sent to the
\* returned URL; a failure rejects the call.
SignOutURL(ok) ==
    /\ signout.pc = "SIGN_OUT"
    /\ IF ok
       THEN /\ signout' = [signout EXCEPT !.pc = "waitTillPageRedirect", !.source = "worker"]
            /\ href' = WorkerSignOutURL
       ELSE /\ signout' = [signout EXCEPT !.pc = "done",
                              !.promise = Reject(@, RemoteError("SIGN_OUT"))]
            /\ UNCHANGED href
    /\ UNCHANGED <<httpVars, chanVars, timerVars, silentVars, clientConfig, signin, url, sent, pkceUsed,
                   signOutURL, checks, helper, getSignOutURLFromSessionStorage, updateVars>>

\* Lines 646-648 and 656-658: waitTillPageRedirect() returned; the call
\* resolves true.
SignOutRedirected ==
    /\ signout.pc = "waitTillPageRedirect"
    /\ signout' = [signout EXCEPT !.pc = "done", !.promise = Resolve(@, True)]
    /\ UNCHANGED <<httpVars, chanVars, timerVars, silentVars, clientConfig, signin, url, sent, href,
                   pkceUsed, signOutURL, checks, helper, getSignOutURLFromSessionStorage,
                   updateVars>>


\* No updateConfig call has been made.
IdleUpdate ==
    [pc |-> "idle", promise |-> Pending, newConfig |-> Undefined, existingConfig |-> Undefined,
     config |-> Undefined, different |-> FALSE, reset |-> FALSE, rechecked |-> FALSE]

\* The browser arrives at the page the call navigated to, or comes back from
\* the identity provider: a fresh client is constructed (lines 85-115) while
\* session storage keeps the verifiers and the cached sign-out URL.  The calls
\* of the page left behind are over.
PageLoad(u) ==
    /\ href # Undefined
    /\ signin.pc \in {"idle", "done"}
    /\ signout.pc \in {"idle", "done"}
    /\ update.pc \in {"idle", "done"}
    /\ url' = u
    /\ href' = Undefined
    /\ signin' = IdleSignIn
    /\ signout' = IdleSignOut
    /\ getSignOutURLFromSessionStorage' = FALSE
    /\ sent' = <<>>
    /\ checks' = 0
    /\ helper' = IdleHelper
    /\ config' = clientConfig
    /\ update' = IdleUpdate
    /\ UNCHANGED <<httpVars, chanVars, timerVars, silent, exchanges, pkceStore, clientConfig, pkceUsed,
                   signOutURL>>

(***************************************************************************)
(* Part 6: updateConfig (web-worker-client.ts 802-828)                     *)
(***************************************************************************)
\* obj.field of an object that may lack the field.
Get(obj, field) == IF field \in DOMAIN obj THEN obj[field] ELSE Undefined

\* config.endpoints as it may be given.
Endpoints ==
    {Undefined, [t |-> "object"],
     [t |-> "object", checkSessionIframe |-> Str("https://idp/a")],
     [t |-> "object", checkSessionIframe |-> Str("https://idp/b")]}

\* The configurations the worker may hold when updateConfig is called.
WorkerConfigs ==
    [enablePKCE : {TRUE}, enableOIDCSessionManagement : BOOLEAN, responseMode : {"query"},
     endpoints : Endpoints \ {[t |-> "object", checkSessionIframe |-> Str("https://idp/b")]}]

\* Partial<AuthClientConfig>: the objects updateConfig may be given.
NewConfigs ==
    {[enablePKCE |-> FALSE]}
    \cup [enableOIDCSessionManagement : BOOLEAN]
    \cup [endpoints : Endpoints \ {Undefined}]
    \cup [enableOIDCSessionManagement : {TRUE}, endpoints : Endpoints \ {Undefined}]

\* obj.endpoints.checkSessionIframe, undefined when a part is missing.
CheckSessionIframeOf(obj) ==
    LET endpoints == Get(obj, "endpoints")
    IN  IF endpoints.t = "object" THEN Get(endpoints, "checkSessionIframe") ELSE Undefined

\* { ...a, ...b }
Spread(a, b) == [k \in DOMAIN a \cup DOMAIN b |-> IF k \in DOMAIN b THEN b[k] ELSE a[k]]

\* Lines 804-812, isCheckSessionIframeDifferent.
IsCheckSessionIframeDifferent(existingConfig, newConfig) ==
    ~ /\ Truthy(CheckSessionIframeOf(existingConfig))
      /\ Truthy(CheckSessionIframeOf(newConfig))
      /\ CheckSessionIframeOf(existingConfig) = CheckSessionIframeOf(newConfig)

\* updateConfig(newConfig) runs up to await getConfigData() (line 803).
UpdateCall(newConfig) ==
    /\ update.pc \in {"idle", "done"}
    /\ update' = [IdleUpdate EXCEPT !.pc = "getConfigData", !.newConfig = newConfig]
    /\ UNCHANGED <<httpVars, chanVars, timerVars, silentVars, clientConfig, signin, url, sent, href,
                   pkceUsed, signOutURL, checks, helper, signOutVars>>

\* Lines 803-820: the existing config arrived; the flag and the merged config
\* are computed and UPDATE_CONFIG is sent.  A failure rejects the call.
UpdateExisting(ok) ==
    /\ update.pc = "getConfigData"
    /\ update' =
         IF ok
         THEN [update EXCEPT
                 !.pc = "UPDATE_CONFIG", !.existingConfig = config,
                 !.different = IsCheckSessionIframeDifferent(config, update.newConfig),
                 !.config = Spread(config, update.newConfig)]
         ELSE [update EXCEPT !.pc = "done",
                             !.promise = Reject(@, RemoteError("GET_CONFIG_DATA"))]
    /\ UNCHANGED <<httpVars, chanVars, timerVars, silentVars, clientConfig, signin, url, sent, href,
                   pkceUsed, signOutURL, checks, helper, signOutVars>>

\* Lines 820-827: UPDATE_CONFIG was acknowledged and the worker holds the
\* merged config.  With session management enabled and the flag set the
\* helper is reset and checkSession started.  A failure rejects the call.
UpdateAck(ok) ==
    /\ update.pc = "UPDATE_CONFIG"
    /\ IF ~ok
       THEN /\ update' = [update EXCEPT !.pc = "done",
                             !.promise = Reject(@, RemoteError("UPDATE_CONFIG"))]
            /\ UNCHANGED <<config, helper, checks>>
       ELSE LET reinitiate == update.config.enableOIDCSessionManagement /\ update.different
            IN  /\ reinitiate => checks < MaxChecks
                /\ config' = update.config
                /\ helper' = IF reinitiate THEN IdleHelper ELSE helper
                /\ checks' = IF reinitiate THEN checks + 1 ELSE checks
                /\ update' = [update EXCEPT !.pc = "done", !.promise = Resolve(@, Undefined),
                                            !.reset = reinitiate, !.rechecked = reinitiate]
    /\ UNCHANGED <<httpVars, chanVars, timerVars, silent, exchanges, pkceStore, clientConfig, signin, url,
                   sent, href, pkceUsed, signOutURL, signOutVars>>


(***************************************************************************)
(* Part 7: httpRequest, httpRequestAll and the HTTP handler switch         *)
(* (web-worker-client.ts).  A communicate round trip is one step whose     *)
(* outcome is the worker's answer or the timeout of Part 1.                *)
(***************************************************************************)

\* Lines 285-292: the handlers initialize() installs when none exist yet.
\* Each callback is a function; the setters (lines 778-800) replace one by
\* another function and never remove it.
DefaultHandlers ==
    [t |-> "object", requestErrorCallback |-> "default", requestFinishCallback |-> "default"]

\* What `typeof httpClientHandlers.requestErrorCallback` throws while
\* httpClientHandlers is still undefined.
TypeError == [t |-> "object", code |-> "TypeError"]

\* What an application's error callback rejects with when it fails.
CallbackError == [t |-> "object", code |-> "CallbackError"]

IdleRequest ==
    [pc |-> "idle", type |-> "none", promise |-> Pending, error |-> Undefined,
     enabled |-> FALSE, callback |-> "none", invoked |-> <<>>]

IdleHandler == [pc |-> "idle", type |-> "none", promise |-> Pending]

\* Lines 284-292: initialize() creates the handlers unless they exist.
Initialize ==
    /\ httpClientHandlers = Undefined
    /\ httpClientHandlers' = DefaultHandlers
    /\ UNCHANGED <<isHttpHandlerEnabled, request, handler>>
    /\ UNCHANGED <<chanVars, timerVars, silentVars, pageVars>>

\* Lines 784-788: the application installs its own error callback.  On an
\* uninitialized client the assignment throws and nothing changes.
SetHttpRequestErrorCallback ==
    /\ httpClientHandlers # Undefined
    /\ httpClientHandlers' = [httpClientHandlers EXCEPT !.requestErrorCallback = "custom"]
    /\ UNCHANGED <<isHttpHandlerEnabled, request, handler>>
    /\ UNCHANGED <<chanVars, timerVars, silentVars, pageVars>>

\* Lines 189-195 and 222-228: the request message is handed to communicate.
HttpRequest(type) ==
    /\ request.pc \in {"idle", "done"}
    /\ request' = [IdleRequest EXCEPT !.pc = "communicate", !.type = type]
    /\ UNCHANGED <<isHttpHandlerEnabled, httpClientHandlers, handler>>
    /\ UNCHANGED <<chanVars, timerVars, silentVars, pageVars>>

\* Lines 196-207 and 229-240: communicate settled.  A response resolves the
\* call.  A failure runs the catch handler: with the handler switch on it
\* reads httpClientHandlers (a TypeError while that is undefined), calls the
\* error callback and awaits it.
HttpRequestSettles(ok, error) ==
    /\ request.pc = "communicate"
    /\ request' =
          IF ok
          THEN [request EXCEPT !.pc = "done", !.promise = Resolve(@, Str("response"))]
          ELSE IF ~isHttpHandlerEnabled
          THEN [request EXCEPT !.pc = "done", !.error = error, !.promise = Reject(@, error)]
          ELSE IF httpClientHandlers = Undefined
          THEN [request EXCEPT !.pc = "done", !.error = error, !.enabled = TRUE,
                               !.promise = Reject(@, TypeError)]
          ELSE [request EXCEPT !.pc = "requestErrorCallback", !.error = error,
                               !.enabled = TRUE,
                               !.callback = httpClientHandlers.requestErrorCallback,
                               !.invoked = <<"requestErrorCallback">>]
    /\ UNCHANGED <<isHttpHandlerEnabled, httpClientHandlers, handler>>
    /\ UNCHANGED <<chanVars, timerVars, silentVars, pageVars>>

\* Lines 202-209 and 235-242: the awaited error callback settled.  When it
\* resolved the finish callback runs and the call rejects with the error of
\* communicate; when it rejected the await throws, so the rest of the catch
\* handler is skipped and the call rejects with what the callback threw.
\* The default callback of initialize() always resolves.
ErrorCallbackSettles(ok) ==
    /\ request.pc = "requestErrorCallback"
    /\ ok \/ request.callback = "custom"
    /\ request' =
          IF ok
          THEN [request EXCEPT !.pc = "done",
                               !.invoked = Append(@, "requestFinishCallback"),
                               !.promise = Reject(@, request.error)]
          ELSE [request EXCEPT !.pc = "done", !.promise = Reject(@, CallbackError)]
    /\ UNCHANGED <<isHttpHandlerEnabled, httpClientHandlers, handler>>
    /\ UNCHANGED <<chanVars, timerVars, silentVars, pageVars>>

\* Lines 246-250 and 261-265: enableHttpHandler / disableHttpHandler send
\* their message.
HandlerCall(type) ==
    /\ handler.pc \in {"idle", "done"}
    /\ handler' = [IdleHandler EXCEPT !.pc = "communicate", !.type = type]
    /\ UNCHANGED <<isHttpHandlerEnabled, httpClientHandlers, request>>
    /\ UNCHANGED <<chanVars, timerVars, silentVars, pageVars>>

\* Lines 251-258 and 266-273: the worker acknowledged, so the flag is set and
\* the call resolves true; or the round trip failed and the call rejects.
HandlerSettles(ok) ==
    /\ handler.pc = "communicate"
    /\ IF ok
       THEN /\ isHttpHandlerEnabled' = (handler.type = "ENABLE_HTTP_HANDLER")
            /\ handler' = [handler EXCEPT !.pc = "done",
                                          !.promise = Resolve(@, [t |-> "boolean", b |-> TRUE])]
       ELSE /\ handler' = [handler EXCEPT !.pc = "done",
                                          !.promise = Reject(@, RemoteError(handler.type))]
            /\ UNCHANGED isHttpHandlerEnabled
    /\ UNCHANGED <<httpClientHandlers, request>>
    /\ UNCHANGED <<chanVars, timerVars, silentVars, pageVars>>

\* Lines 89 and 94: the handlers and the switch after construction.
HttpIdle ==
    /\ isHttpHandlerEnabled = TRUE
    /\ httpClientHandlers = Undefined
    /\ request = IdleRequest
    /\ handler = IdleHandler

\* The page part before any operation is called.
PageIdle(cfg, u, cached) ==
    /\ clientConfig = cfg
    /\ signin = IdleSignIn
    /\ url = u
    /\ sent = <<>>
    /\ href = Undefined
    /\ pkceUsed = {}
    /\ signOutURL = cached
    /\ checks = 0
    /\ helper = IdleHelper
    /\ signout = IdleSignOut
    /\ getSignOutURLFromSessionStorage = FALSE
    /\ update = IdleUpdate

NoPage == PageIdle([enablePKCE |-> TRUE], NoParams, Str(""))

ChannelIdle ==
    /\ requestTimeout = DefaultRequestTimeout
    /\ calls = [c \in CallIds |-> IdleCall]

TimerIdle(data) ==
    /\ sessionData = data
    /\ tempStore = Undefined
    /\ timers = [h \in TimerIds |-> NoTimer]
    /\ nextTimer = 1
    /\ sched = IdleSched
    /\ cancel = IdleCancel

NoSession == [refresh_token |-> Undefined, expires_in |-> Chars(ToDecimal(0))]
NoSilent == SilentIdle([enablePKCE |-> TRUE])

InitTimer == ChannelIdle /\ HttpIdle /\ NoSilent /\ NoPage /\ \E data \in SessionDatas : TimerIdle(data)

NextTimer ==
    \/ RefreshCall
    \/ RefreshArm
    \/ RefreshPersist
    \/ \E h \in TimerIds : RefreshTimerFires(h)
    \/ \E arg \in ClearArgs : ClearCall(arg)
    \/ ClearRead1
    \/ ClearRead2
    \/ ClearResume
    \/ \E data \in SessionDatas : SetSessionData(data)

SpecTimer == InitTimer /\ [][NextTimer]_vars

\* The delay computation alone: one session with a refresh token and every
\* lifetime up to MaxExpiry seconds, scheduled repeatedly.
InitDelay ==
    /\ ChannelIdle
    /\ HttpIdle
    /\ NoSilent
    /\ NoPage
    /\ \E e \in 0..MaxExpiry :
          TimerIdle([refresh_token |-> Str("rt"), expires_in |-> Chars(ToDecimal(e))])

NextDelay ==
    \/ RefreshCall
    \/ RefreshArm
    \/ RefreshPersist

SpecDelay == InitDelay /\ [][NextDelay]_vars

InitSilent ==
    /\ ChannelIdle
    /\ HttpIdle
    /\ TimerIdle(NoSession)
    /\ NoPage
    /\ \E cfg \in Configs : SilentIdle(cfg)

NextSilent ==
    \/ SilentCall
    \/ \E ok \in BOOLEAN, inIFrame \in BOOLEAN : SilentConfig(ok, inIFrame)
    \/ SilentIFrame
    \/ \E ok \in BOOLEAN, pkce \in {Undefined, Str("verifier")}, hasIFrame \in BOOLEAN :
          SilentAuthURL(ok, pkce, hasIFrame)
    \/ CeilingFires
    \/ \E x \in SignalIds, e \in Signals : Signal(x, e)
    \/ \E x \in SignalIds : ExchangeSend(x)
    \/ \E x \in SignalIds : ExchangeToken(x)
    \/ \E x \in SignalIds : ExchangeDone(x)
    \/ \E x \in SignalIds : ExchangeFails(x)

SpecSilent == InitSilent /\ [][NextSilent]_vars

\* The browser runs the armed ceiling timer's callback after its delay.
FairSilent == SpecSilent /\ WF_vars(CeilingFires)

InitSignIn ==
    /\ ChannelIdle
    /\ HttpIdle
    /\ TimerIdle(NoSession)
    /\ \E cfg \in ClientConfigs, u \in URLs :
          /\ SilentIdle(cfg)
          /\ PageIdle(cfg, u, Str(""))

NextSignIn ==
    \/ \E args \in SignInArgs : SignInCall(args)
    \/ \E ok \in BOOLEAN : SignInConfig(ok)
    \/ \E shouldStopContinue \in BOOLEAN : SignInPromptNone(shouldStopContinue)
    \/ \E ok \in BOOLEAN, response \in BOOLEAN : SignInAuthenticated(ok, response)
    \/ \E ok \in BOOLEAN : SignInAutoRefresh(ok)
    \/ \E ok \in BOOLEAN : SignInUserInfo(ok)
    \/ \E ok \in BOOLEAN : SignInExchangeSend(ok)
    \/ \E ok \in BOOLEAN : SignInExchangeToken(ok)
    \/ \E ok \in BOOLEAN, signOutUrl \in {WorkerSignOutURL, Str("https://idp/oidc/logout")} :
          SignInExchangeDone(ok, signOutUrl)
    \/ \E ok \in BOOLEAN, pkce \in {Undefined, Str("verifier")}, state \in AuthURLStates :
          SignInAuthURL(ok, pkce, state)
    \/ SignInRedirected
    \/ \E ok \in BOOLEAN : CheckSessionSettles(ok)
    \/ \E u \in URLs : PageLoad(u)

SpecSignIn == InitSignIn /\ [][NextSignIn]_vars

\* A session storage that holds no sign-out URL, or the one cached by an
\* earlier exchange.
CachedSignOutURLs == {Str(""), WorkerSignOutURL}

InitSignOut ==
    /\ ChannelIdle
    /\ HttpIdle
    /\ TimerIdle(NoSession)
    /\ NoSilent
    /\ \E cached \in CachedSignOutURLs :
          PageIdle([enablePKCE |-> TRUE], NoParams, cached)

NextSignOut ==
    \/ \E preventSignOutURLUpdate \in BOOLEAN : GrantCall(preventSignOutURLUpdate)
    \/ \E ok \in BOOLEAN : GrantSettles(ok)
    \/ SignOutCall
    \/ \E ok \in BOOLEAN, response \in BOOLEAN : SignOutAuthenticated(ok, response)
    \/ \E ok \in BOOLEAN : SignOutURL(ok)
    \/ SignOutRedirected
    \/ \E u \in URLs : PageLoad(u)

SpecSignOut == InitSignOut /\ [][NextSignOut]_vars

\* The client was constructed with the config the worker holds; with session
\* management enabled a sign-in has initialized the helper.
InitUpdate ==
    /\ ChannelIdle
    /\ HttpIdle
    /\ TimerIdle(NoSession)
    /\ \E cfg \in WorkerConfigs :
          /\ SilentIdle(cfg)
          /\ clientConfig = cfg
          /\ signin = IdleSignIn /\ url = NoParams /\ sent = <<>> /\ href = Undefined
          /\ pkceUsed = {} /\ signOutURL = Str("") /\ checks = 0
          /\ helper = [initialized |-> cfg.enableOIDCSessionManagement]
          /\ signout = IdleSignOut /\ getSignOutURLFromSessionStorage = FALSE
          /\ update = IdleUpdate

NextUpdate ==
    \/ \E newConfig \in NewConfigs : UpdateCall(newConfig)
    \/ \E ok \in BOOLEAN : UpdateExisting(ok)
    \/ \E ok \in BOOLEAN : UpdateAck(ok)
    \/ \E ok \in BOOLEAN : CheckSessionSettles(ok)

SpecUpdate == InitUpdate /\ [][NextUpdate]_vars

\* Requests that fail or succeed, with the handler switch toggled and the
\* callbacks installed at any time.
InitHttp ==
    /\ ChannelIdle
    /\ HttpIdle
    /\ TimerIdle(NoSession)
    /\ NoSilent
    /\ NoPage

NextHttp ==
    \/ Initialize
    \/ SetHttpRequestErrorCallback
    \/ \E type \in {"HTTP_REQUEST", "HTTP_REQUEST_ALL"} : HttpRequest(type)
    \/ \E ok \in BOOLEAN, error \in {RemoteError("HTTP_REQUEST"), TimeoutException(DefaultRequestTimeout)} :
          HttpRequestSettles(ok, error)
    \/ \E ok \in BOOLEAN : ErrorCallbackSettles(ok)
    \/ \E type \in {"ENABLE_HTTP_HANDLER", "DISABLE_HTTP_HANDLER"} : HandlerCall(type)
    \/ \E ok \in BOOLEAN : HandlerSettles(ok)

SpecHttp == InitHttp /\ [][NextHttp]_vars

\* Sign-ins over page loads of an application that also calls updateConfig
\* with a PKCE setting.  The round trips that play no part in the handling of
\* the verifier succeed.
InitPKCE ==
    /\ ChannelIdle
    /\ HttpIdle
    /\ TimerIdle(NoSession)
    /\ \E cfg \in [enablePKCE : BOOLEAN, enableOIDCSessionManagement : {FALSE},
                    responseMode : {"query"}] :
          /\ SilentIdle(cfg)
          /\ PageIdle(cfg, NoParams, Str(""))

NextPKCE ==
    \/ \E newConfig \in [enablePKCE : BOOLEAN] : UpdateCall(newConfig)
    \/ \E ok \in BOOLEAN : UpdateExisting(ok)
    \/ \E ok \in BOOLEAN : UpdateAck(ok)
    \/ SignInCall(NoArgs)
    \/ SignInConfig(TRUE)
    \/ SignInPromptNone(FALSE)
    \/ SignInAuthenticated(TRUE, FALSE)
    \/ SignInExchangeSend(TRUE)
    \/ \E ok \in BOOLEAN : SignInExchangeToken(ok)
    \/ SignInExchangeDone(TRUE, WorkerSignOutURL)
    \/ \E pkce \in {Undefined, Str("verifier")}, state \in AuthURLStates :
          SignInAuthURL(TRUE, pkce, state)
    \/ SignInRedirected
    \/ \E u \in {NoParams, [NoParams EXCEPT !.code = Str("c1"), !.session_state = Str("ss1"),
                                            !.state = Str("st1")]} : PageLoad(u)

SpecPKCE == InitPKCE /\ [][NextPKCE]_vars

InitChannel ==
    /\ requestTimeout \in {RequestTimeoutOf(cfg) : cfg \in ConfigRequestTimeouts}
    /\ calls = [c \in CallIds |-> IdleCall]
    /\ TimerIdle(NoSession)
    /\ HttpIdle
    /\ NoSilent
    /\ NoPage

NextChannel ==
    \/ \E c \in CallIds : Communicate(c)
    \/ \E c \in CallIds : TimeoutFires(c)
    \/ \E c \in CallIds, data \in ResponseMessages : OnMessage(c, data)

SpecChannel == InitChannel /\ [][NextChannel]_vars

\* The browser runs an armed timer's callback once its delay has elapsed.
FairChannel == SpecChannel /\ \A c \in CallIds : WF_vars(TimeoutFires(c))

(***************************************************************************)
(* Claims about communicate                                                *)
(***************************************************************************)
FirstSuccess(c) == calls[c].first = "response" /\ calls[c].firstResponse.success
FirstFailure(c) == calls[c].first = "response" /\ ~calls[c].firstResponse.success

\* C1: every call settles exactly once, with the outcome fixed by whichever of
\* its first response and its timeout came first: while neither has happened
\* the promise is pending; after a timeout it is rejected with the timeout
\* exception; after a first response it is resolved (success) or rejected
\* (failure), whatever arrives later on this or another channel.
C1_OutcomeFixedByFirstEvent ==
    \A c \in CallIds :
        /\ calls[c].first = "none" => calls[c].promise.state = "pending"
        /\ calls[c].first = "timeout" =>
                calls[c].promise = Reject(Pending, TimeoutException(requestTimeout))
        /\ FirstSuccess(c) => calls[c].promise.state = "resolved"
        /\ FirstFailure(c) =>
                /\ calls[c].promise.state = "rejected"
                /\ calls[c].promise.value.t # "exception"

\* C2 (safety part): a timer that fired with no response received rejected the
\* call with the timeout exception, whose description states requestTimeout
\* in seconds; a call whose first event is a response has its timer cleared,
\* so the timer is never armed or fired after a response.
C2_TimerState ==
    \A c \in CallIds :
        /\ calls[c].timer = "fired" =>
                /\ calls[c].first = "timeout"
                /\ calls[c].promise.state = "rejected"
                /\ calls[c].promise.value.t = "exception"
                /\ LET secs == calls[c].promise.value.description[2]
                   IN  /\ secs[1] * 1000 + secs[2] = requestTimeout
                       /\ secs[2] \in 0..999
        /\ calls[c].received > 0 /\ calls[c].first = "response" =>
                calls[c].timer = "cleared"
        /\ calls[c].received > 0 => calls[c].timer # "armed"

\* C2: if no message arrives on a call's channel before the request timeout,
\* the call eventually rejects with the timeout error stating
\* requestTimeout / 1000 seconds; once a response was received the call's
\* timer is cleared and never fires.
C2_TimeoutRejects ==
    /\ []C2_TimerState
    /\ \A c \in CallIds :
          (calls[c].phase = "sent") ~>
              \/ calls[c].received > 0
              \/ calls[c].promise = Reject(Pending, TimeoutException(requestTimeout))

\* Witness of C2: one call timed out with no response and was rejected, while
\* another received a response and had its timer cleared.
C2_Witness ==
    \E c, d \in CallIds :
        /\ calls[c].timer = "fired" /\ calls[c].received = 0
        /\ calls[c].promise.state = "rejected"
        /\ calls[d].received > 0 /\ calls[d].timer = "cleared"

\* C3: a first response with success = true resolves the call, with the blob
\* in the value's data field when a blob is present; a first response with
\* success = false rejects with the parsed error or null.  No received
\* response leaves the call unsettled.
C3_ResponseSettles ==
    \A c \in CallIds :
        /\ FirstSuccess(c) =>
                /\ calls[c].promise.state = "resolved"
                /\ Truthy(calls[c].firstResponse.blob) =>
                        /\ calls[c].promise.value.t = "object"
                        /\ calls[c].promise.value.data = calls[c].firstResponse.blob
        /\ FirstFailure(c) =>
                calls[c].promise =
                    Reject(Pending,
                           IF calls[c].firstResponse.error.t = "string"
                           THEN JSONparse(calls[c].firstResponse.error.s)
                           ELSE Null)

(***************************************************************************)
(* Claims about SPAHelper                                                  *)
(***************************************************************************)
Armed == {h \in TimerIds : timers[h].state = "armed"}

\* The session data holds a refresh token: a non-empty string.
HasRefreshToken(data) ==
    data.refresh_token.t = "string" /\ data.refresh_token.s # ""

\* What getRefreshTimeoutTimer would return now.
StoredHandle == getRefreshTimeoutTimer(tempStore, tempStore)

\* C4: after any sequence of refreshAccessTokenAutomatically and
\* clearRefreshTokenTimeout calls at most one refresh timer is armed and
\* unfired.
C4_AtMostOneArmed == Cardinality(Armed) <= 1

\* C5: a timer armed for a lifetime of e seconds has delay e - 10 seconds when
\* e > 10 and e seconds when e <= 10, and a positive delay whenever e >= 1.
C5_RefreshDelay ==
    \A h \in TimerIds, e \in 0..MaxExpiry :
        (timers[h].state = "armed" /\ sessionData.expires_in = Chars(ToDecimal(e))) =>
            /\ e > 10 => timers[h].delay = (e - 10) * 1000
            /\ e <= 10 => timers[h].delay = e * 1000
            /\ e >= 1 => timers[h].delay > 0

\* Witness of C5: a lifetime of 100 seconds armed a timer of 90 seconds.
C5_Witness ==
    /\ sessionData.expires_in = Chars(<<"1", "0", "0">>)
    /\ \E h \in TimerIds : timers[h].state = "armed" /\ timers[h].delay = 90000

\* C6: the step of refreshAccessTokenAutomatically that has read the session
\* data arms a timer if and only if the data holds a refresh token; without
\* one the call ends with the timers and the persisted handle unchanged.  No
\* other step arms a timer, and the persisted handle changes only at the end
\* of a call that armed one.
C6_ArmsIffRefreshToken ==
    [][/\ (sched.pc = "getSessionData" /\ sched'.pc # "getSessionData") =>
            IF HasRefreshToken(sessionData)
            THEN /\ timers[nextTimer].state = "unset"
                 /\ timers'[nextTimer].state = "armed"
                 /\ sched'.timer = nextTimer
                 /\ sched'.pc = "setTemporaryDataParameter"
            ELSE /\ timers' = timers
                 /\ tempStore' = tempStore
                 /\ sched'.pc = "idle"
       /\ (\E h \in TimerIds : timers[h].state # "armed" /\ timers'[h].state = "armed") =>
            sched.pc = "getSessionData" /\ HasRefreshToken(sessionData)
       /\ tempStore' # tempStore =>
            /\ sched.pc = "setTemporaryDataParameter"
            /\ timers[sched.timer].state # "unset"
      ]_vars

\* Witness of C6: a call ended without arming a timer while an earlier call's
\* handle is persisted and no refresh token is present.
C6_Witness ==
    /\ sched.pc = "idle" /\ sched.last = "skipped"
    /\ ~HasRefreshToken(sessionData)
    /\ tempStore # Undefined
    /\ nextTimer = 2

\* C7 (state part): before any timer was scheduled getRefreshTimeoutTimer
\* returns -1; when no schedule is in flight it returns the handle of the
\* most recently armed timer.
C7_StoredHandle ==
    /\ nextTimer = 1 => StoredHandle = -1
    /\ (sched.pc \in {"idle", "getSessionData"} /\ nextTimer > 1) => StoredHandle = nextTimer - 1

\* C7: after a completed schedule getRefreshTimeoutTimer returns the handle of
\* the most recently armed timer and -1 before any schedule; a following
\* clearRefreshTokenTimeout() reads that handle, clears its timer if it is
\* still armed, and a cleared timer's callback never runs.
C7_PersistedHandleCancels ==
    /\ []C7_StoredHandle
    /\ [][/\ (cancel.pc = "read2" /\ cancel'.pc = "resume" /\ sched.pc # "setTemporaryDataParameter") =>
                cancel'.refreshTimer = nextTimer - 1
          /\ (cancel.pc = "resume" /\ cancel'.pc = "done") =>
                /\ cancel.refreshTimer \in TimerIds
                /\ timers'[cancel.refreshTimer].state \in {"cleared", "fired"}
                /\ timers[cancel.refreshTimer].state = "armed" =>
                        timers'[cancel.refreshTimer].state = "cleared"
          /\ \A h \in TimerIds :
                timers[h].state = "cleared" => timers'[h].state = "cleared"
         ]_vars

\* Witness of C7: a cancel without argument has cleared the most recently
\* armed timer, whose handle the store still holds.
C7_Witness ==
    /\ cancel.pc = "done" /\ cancel.arg = Undefined
    /\ cancel.cleared = Num(nextTimer - 1)
    /\ timers[nextTimer - 1].state = "cleared"
    /\ StoredHandle = nextTimer - 1

C8_CancelState ==
    /\ (cancel.arg.t = "number" /\ cancel.arg.n # 0) =>
            /\ ~cancel.consulted
            /\ cancel.pc = "done"
            /\ cancel.cleared = cancel.arg
    /\ (cancel.pc # "none" /\ (cancel.arg = Undefined \/ cancel.arg = Num(0))) =>
            /\ cancel.consulted
            /\ cancel.pc = "done" =>
                    cancel.cleared =
                        IF cancel.refreshTimer = -1 THEN Undefined ELSE Num(cancel.refreshTimer)
    /\ (cancel.consulted /\ nextTimer = 1) => cancel.cleared = Undefined

ResolvedFalse == Resolve(Pending, False)

\* C9 (state part): a ceiling that fired before any CHECK_SESSION signal was
\* received has resolved the call with false; the ceiling is 10000 ms.
C9_CeilingState ==
    /\ silent.ceiling # "none" => silent.delay = 10000
    /\ (silent.ceiling = "fired" /\ silent.signals = 0) => silent.promise = ResolvedFalse

\* C9: in the host role, once the iframe's src is set, if no
\* CHECK_SESSION_SIGNED_IN or CHECK_SESSION_SIGNED_OUT arrives before the
\* 10000 ms ceiling, the call resolves false: it does not reject and does not
\* stay pending.
C9_CeilingResolvesFalse ==
    /\ []C9_CeilingState
    /\ (silent.pc = "listening") ~> (silent.signals > 0 \/ silent.promise = ResolvedFalse)

\* Witness of C9: the ceiling fired with no signal received and the call is
\* resolved false.
C9_Witness ==
    /\ silent.pc = "listening" /\ silent.ceiling = "fired" /\ silent.signals = 0
    /\ silent.promise = ResolvedFalse

\* C10: whenever a CHECK_SESSION_SIGNED_IN signal with a code was received
\* before the ceiling fired, however long the exchange takes, the call does
\* not resolve false: once settled it holds the outcome of an exchange.
C10_SignedInSettlesWithExchange ==
    (\E x \in SignalIds : exchanges[x].pc # "unused" /\ exchanges[x].beforeCeiling) =>
        /\ silent.promise # ResolvedFalse
        /\ silent.promise.state # "pending" =>
                \E x \in SignalIds : exchanges[x].result = silent.promise

\* The exchanges whose REQUEST_ACCESS_TOKEN message was sent.
TokenRequested(x) ==
    \/ exchanges[x].pc \in {"REQUEST_ACCESS_TOKEN", "GET_SIGN_OUT_URL", "done"}
    \/ /\ exchanges[x].pc = "failed"
       /\ exchanges[x].result.value \in {RemoteError("REQUEST_ACCESS_TOKEN"),
                                         RemoteError("GET_SIGN_OUT_URL")}

\* C11: whenever CHECK_SESSION_SIGNED_OUT is the first signal and arrives
\* before the ceiling, the call is resolved false from that handler's turn
\* on, the ceiling timer is cancelled, the listener is removed, and no
\* requestAccessToken is started, so no REQUEST_ACCESS_TOKEN is sent.
C11_SignedOutFirst ==
    (silent.first = "CHECK_SESSION_SIGNED_OUT" /\ silent.firstArmed) =>
        /\ silent.promise = ResolvedFalse
        /\ silent.ceiling = "cleared"
        /\ ~silent.listener
        /\ silent.signals = 1
        /\ \A x \in SignalIds : exchanges[x].pc = "unused" /\ ~TokenRequested(x)

\* Witness of C11: the first signal was a signed-out one with the ceiling
\* armed, and the call is resolved false.
C11_Witness ==
    /\ silent.first = "CHECK_SESSION_SIGNED_OUT" /\ silent.firstArmed
    /\ silent.promise = ResolvedFalse /\ silent.ceiling = "cleared"

\* C12: whenever the listening call has settled, by the ceiling, by a handled
\* signed-in signal or by a signed-out signal, no listener remains registered.
C12_SettledHasNoListener ==
    (silent.pc = "listening" /\ silent.promise.state # "pending") => ~silent.listener

\* C13: after the ceiling fired and resolved the call false, a signal that
\* arrives later sends no REQUEST_ACCESS_TOKEN and consumes no stored
\* verifier: every exchange that sent one, or read a verifier, was started
\* while the ceiling was armed.
C13_LateSignalsIgnored ==
    \A x \in SignalIds :
        (TokenRequested(x) \/ exchanges[x].pkce # Undefined) => exchanges[x].beforeCeiling

\* C24: of the exchanges one trySignInSilently call has started, at most one
\* has sent REQUEST_ACCESS_TOKEN, whatever signals arrived and whenever.
C24_OneTokenRequest == Cardinality({x \in SignalIds : TokenRequested(x)}) <= 1

(***************************************************************************)
(* Claims about signIn                                                     *)
(***************************************************************************)
HasSent(m) == \E i \in DOMAIN sent : sent[i] = m

\* C14: a signIn that found no silent response and no URL error and was told
\* IS_AUTHENTICATED = true sends no REQUEST_ACCESS_TOKEN and no GET_AUTH_URL
\* and does not navigate; it sends START_AUTO_REFRESH_TOKEN, stays pending
\* until that is acknowledged, sends GET_BASIC_USER_INFO only afterwards and
\* resolves with the user info that message returned.
C14_AuthenticatedSignIn ==
    signin.authenticated = "true" =>
        /\ ~HasSent("REQUEST_ACCESS_TOKEN") /\ ~HasSent("GET_AUTH_URL")
        /\ href = Undefined
        /\ HasSent("START_AUTO_REFRESH_TOKEN")
        /\ HasSent("GET_BASIC_USER_INFO") => "START_AUTO_REFRESH_TOKEN" \in signin.acked
        /\ signin.pc # "done" => signin.promise = Pending
        /\ signin.promise.state = "resolved" =>
              /\ "GET_BASIC_USER_INFO" \in signin.acked
              /\ signin.promise = Resolve(Pending, BasicUserInfo)

\* Witness of C14: an authenticated signIn on a URL that carries a code has
\* resolved with the session's user info.
C14_Witness ==
    /\ signin.authenticated = "true" /\ url.code = Str("c1")
    /\ signin.promise = Resolve(Pending, BasicUserInfo)

\* What the claim says of a signIn that read the error parameter: it rejected
\* with the exception built from error and error_description, both are gone
\* from the URL, and none of IS_AUTHENTICATED, REQUEST_ACCESS_TOKEN and
\* GET_AUTH_URL was sent.
URLErrorSurfaced ==
    /\ signin.promise = Reject(Pending, SignInError(signin.error, signin.errorDescription))
    /\ url.error = Null /\ url.error_description = Null
    /\ ~HasSent("IS_AUTHENTICATED") /\ ~HasSent("REQUEST_ACCESS_TOKEN")
    /\ ~HasSent("GET_AUTH_URL")

\* C15 as stated: whenever the URL carries an error parameter and no silent
\* response short-circuits the call, signIn rejects with that error and
\* strips both parameters.
C15_AnyErrorParameter ==
    signin.error \notin {Undefined, Null} => URLErrorSurfaced

\* C15 amended: whenever the URL carries a non-empty error parameter and no
\* silent response short-circuits the call, signIn rejects with the error
\* built from error and error_description after removing both from the URL,
\* whatever the authentication state (no IS_AUTHENTICATED,
\* REQUEST_ACCESS_TOKEN or GET_AUTH_URL is sent); the next signIn on the
\* resulting URL does not reject with that error again.
C15_ErrorRejectsOnce ==
    /\ Truthy(signin.error) => URLErrorSurfaced
    /\ signin.prevURLError => ~IsURLError(signin.promise)

\* Witness of C15: the call rejected with the URL's error; the URL lost the
\* error parameters and kept its code.
C15_Witness ==
    /\ IsURLError(signin.promise) /\ signin.error = Str("access_denied")
    /\ url.error = Null /\ url.code = Str("c1")

\* The positions of requestAccessToken.
ExchangePositions == {"requestAccessToken", "REQUEST_ACCESS_TOKEN", "GET_SIGN_OUT_URL"}

\* C20 (state part): past the three checks exactly one branch is taken.  With
\* a non-empty code the call runs requestAccessToken, which sends
\* REQUEST_ACCESS_TOKEN once its configuration has arrived, never sends
\* GET_AUTH_URL and never navigates; otherwise GET_AUTH_URL is sent, the
\* browser goes to the returned URL and REQUEST_ACCESS_TOKEN is never sent.
\* The explicit arguments are the source exactly when the response mode is
\* form_post and an explicit code was given.
C20_BranchState ==
    signin.resolved.source # "none" =>
        /\ signin.authenticated = "false"
        /\ IF Truthy(signin.resolved.code)
           THEN /\ ~HasSent("GET_AUTH_URL") /\ href = Undefined
                /\ signin.pc \in ExchangePositions \cup {"done"}
                /\ (signin.pc \in {"REQUEST_ACCESS_TOKEN", "GET_SIGN_OUT_URL"}
                      \/ signin.promise.state = "resolved") => HasSent("REQUEST_ACCESS_TOKEN")
           ELSE /\ HasSent("GET_AUTH_URL") /\ ~HasSent("REQUEST_ACCESS_TOKEN")
                /\ signin.pc \in {"getAuthorizationURL", "waitTillPageRedirect", "done"}
                /\ (signin.pc = "waitTillPageRedirect" \/ signin.promise.state = "resolved")
                      => href = AuthorizationURL
        /\ signin.resolved.source = "args" <=>
              (clientConfig.responseMode = "form_post" /\ Truthy(signin.args.authorizationCode))
        /\ signin.resolved.source = "args" =>
              /\ signin.resolved.code = signin.args.authorizationCode
              /\ signin.resolved.sessionState = Coalesce(signin.args.sessionState, Str(""))
              /\ signin.resolved.state = Coalesce(signin.args.state, Str(""))
        /\ signin.resolved.source = "url" =>
              /\ url.code = Null
              /\ signin.resolved.sessionState = Coalesce(url.session_state, Str(""))
              /\ signin.resolved.state = Coalesce(url.state, Str(""))

\* C20: the state part, and the step that resolves the code: the explicit
\* arguments leave the URL alone; otherwise the code is the URL's and is
\* cleared from it.
C20_OneBranch ==
    /\ []C20_BranchState
    /\ [][(signin.resolved.source = "none" /\ signin'.resolved.source # "none") =>
            IF signin'.resolved.source = "args"
            THEN url' = url
            ELSE /\ signin'.resolved.code = Coalesce(url.code, Str(""))
                 /\ url' = [url EXCEPT !.code = Null]
         ]_vars

\* Witness of C20: in form_post mode an explicit code was exchanged while the
\* URL kept its own code.
C20_Witness ==
    /\ signin.resolved.source = "args" /\ url.code = Str("c1")
    /\ signin.promise = Resolve(Pending, UserInfoOf("c2"))

\* The position of message m in the messages of the call, 0 when not sent.
SentAt(m) == IF HasSent(m) THEN CHOOSE i \in DOMAIN sent : sent[i] = m ELSE 0

\* The call has run requestAccessToken to its resolution.
ExchangeResolved ==
    signin.promise.state = "resolved" /\ "GET_SIGN_OUT_URL" \in signin.acked

\* C26 (state part): a resolved exchange was acknowledged REQUEST_ACCESS_TOKEN
\* and then GET_SIGN_OUT_URL, has cached the URL the latter returned, has sent
\* START_AUTO_REFRESH_TOKEN after both and resolved with the user info of its
\* code; an exchange rejected by either message has sent no
\* START_AUTO_REFRESH_TOKEN.
C26_ExchangeState ==
    /\ ExchangeResolved =>
          /\ "REQUEST_ACCESS_TOKEN" \in signin.acked
          /\ signOutURL = signin.signOutURL
          /\ 0 < SentAt("REQUEST_ACCESS_TOKEN")
          /\ SentAt("REQUEST_ACCESS_TOKEN") < SentAt("GET_SIGN_OUT_URL")
          /\ SentAt("GET_SIGN_OUT_URL") < SentAt("START_AUTO_REFRESH_TOKEN")
          /\ signin.promise.value = UserInfoOf(signin.resolved.code.s)
    /\ (/\ signin.promise.state = "rejected"
        /\ signin.promise.value \in {RemoteError("REQUEST_ACCESS_TOKEN"),
                                      RemoteError("GET_SIGN_OUT_URL")}) =>
          ~HasSent("START_AUTO_REFRESH_TOKEN")

\* C26: requestAccessToken resolves only after the REQUEST_ACCESS_TOKEN and
\* GET_SIGN_OUT_URL responses, in that order, with the returned sign-out URL
\* cached and START_AUTO_REFRESH_TOKEN sent; the cached URL changes in no
\* other step; a failure of either message rejects the call with that error
\* and leaves the cached URL and the messages sent as they were.
C26_ExchangeOrdered ==
    /\ []C26_ExchangeState
    /\ [][/\ signOutURL' # signOutURL =>
                /\ signin.pc = "GET_SIGN_OUT_URL"
                /\ signin'.promise.state = "resolved"
                /\ signOutURL' = signin'.signOutURL
          /\ (signin.pc = "GET_SIGN_OUT_URL" /\ signin'.promise.state = "resolved") =>
                /\ ~HasSent("START_AUTO_REFRESH_TOKEN")
                /\ sent'[Len(sent')] = "START_AUTO_REFRESH_TOKEN"
          /\ (signin.pc \in {"REQUEST_ACCESS_TOKEN", "GET_SIGN_OUT_URL"}
                /\ signin'.promise.state = "rejected") =>
                /\ signin'.promise.value = RemoteError(signin.pc)
                /\ signOutURL' = signOutURL
                /\ sent' = sent
         ]_vars

\* Witness of C26: an exchange resolved with the user info of its code, the
\* URL its GET_SIGN_OUT_URL returned cached and START_AUTO_REFRESH_TOKEN sent.
C26_Witness ==
    /\ ExchangeResolved
    /\ signOutURL = Str("https://idp/oidc/logout")
    /\ HasSent("START_AUTO_REFRESH_TOKEN")
    /\ signin.promise = Resolve(Pending, UserInfoOf("c1"))

(***************************************************************************)
(* Claims about the PKCE verifier                                          *)
(***************************************************************************)
\* The key of the exchange the signIn call runs.
ExchangeKey == extractPKCEKeyFromStateParam(signin.resolved.state.s)

\* C19 (state part): with PKCE enabled, a stored verifier that a
\* REQUEST_ACCESS_TOKEN message has carried is no longer in storage, and the
\* key of an exchange that has sent its message holds no verifier.
C19_UsedIsGone ==
    config.enablePKCE =>
        /\ pkceUsed \cap pkceStore = {}
        /\ (signin.pc \in {"REQUEST_ACCESS_TOKEN", "GET_SIGN_OUT_URL"}
              \/ HasSent("REQUEST_ACCESS_TOKEN")) => ExchangeKey \notin pkceStore

\* C19: with PKCE enabled, a verifier stored under a key by an authorization
\* URL request is carried by one REQUEST_ACCESS_TOKEN message only:
\* requestAccessToken reads it and removes it in the step that dispatches the
\* message, so a later requestAccessToken for the same key, a retry after a
\* failed exchange included, sends no verifier.
C19_VerifierSentOnce ==
    /\ []C19_UsedIsGone
    /\ [][(config.enablePKCE /\ signin.pc = "requestAccessToken"
              /\ signin'.pc = "REQUEST_ACCESS_TOKEN") =>
            /\ signin'.pkce = getPKCE(pkceStore, ExchangeKey)
            /\ ExchangeKey \notin pkceStore'
            /\ ExchangeKey \in pkceUsed => signin'.pkce = Undefined
         ]_vars

\* Witness of C19: the verifier of a key was carried by an earlier exchange,
\* and the exchange in flight for the same key has sent none.
C19_Witness ==
    /\ config.enablePKCE
    /\ signin.pc = "REQUEST_ACCESS_TOKEN" /\ signin.pkce = Undefined
    /\ ExchangeKey \in pkceUsed

(***************************************************************************)
(* Claims about signOut                                                    *)
(***************************************************************************)
\* C16: signOut first asks IS_AUTHENTICATED.  If the answer is true and the
\* flag is false it sends SIGN_OUT and navigates to the URL returned;
\* otherwise it sends no SIGN_OUT and navigates to the cached URL.  It
\* resolves, with true, only after the redirect wait; if IS_AUTHENTICATED or
\* SIGN_OUT fails it rejects without navigating.
C16_SignOut ==
    /\ signout.pc # "idle" => sent[1] = "IS_AUTHENTICATED"
    /\ signout.pc = "isAuthenticated" => (signout.source = "none" /\ sent = <<"IS_AUTHENTICATED">>)
    /\ HasSent("SIGN_OUT") <=> (signout.authenticated = "true" /\ ~signout.fromStorage)
    /\ signout.authenticated # "unknown" =>
          IF signout.authenticated = "true" /\ ~signout.fromStorage
          THEN /\ signout.source \in {"none", "worker"}
               /\ signout.source = "worker" => href = WorkerSignOutURL
               /\ signout.source = "none" => signout.pc \in {"SIGN_OUT", "done"}
          ELSE signout.source = "cached" /\ href = signOutURL
    /\ signout.pc \in {"isAuthenticated", "SIGN_OUT", "waitTillPageRedirect"} =>
          signout.promise = Pending
    /\ signout.promise.state = "resolved" =>
          signout.promise.value = True /\ signout.source # "none" /\ href # Undefined
    /\ signout.promise.state = "rejected" =>
          /\ signout.source = "none" /\ href = Undefined
          /\ signout.promise.value \in {RemoteError("IS_AUTHENTICATED"), RemoteError("SIGN_OUT")}

\* Witness of C16: an authenticated signOut navigated to the URL SIGN_OUT
\* returned and resolved true.
C16_Witness ==
    /\ signout.source = "worker" /\ href = WorkerSignOutURL
    /\ signout.promise = Resolve(Pending, True)

\* C17 as stated: in every signOut that navigates to the cached sign-out URL
\* the flag _getSignOutURLFromSessionStorage is true.
C17_CachedOnlyWithFlag ==
    signout.source = "cached" => signout.fromStorage

\* C17 amended: in every signOut that navigates to the cached sign-out URL
\* the flag is true or the worker answered IS_AUTHENTICATED with false.
C17_CachedWithFlagOrSignedOut ==
    signout.source = "cached" => (signout.fromStorage \/ signout.authenticated = "false")

\* Witness of C17: an authenticated signOut navigated to the cached URL with
\* the flag set.
C17_Witness ==
    /\ signout.source = "cached" /\ signout.authenticated = "true" /\ signout.fromStorage
    /\ href = WorkerSignOutURL

\* C25 (state part): a signOut that read the flag set has sent no SIGN_OUT
\* and goes to the cached URL.
C25_FlagSetSignsOutCached ==
    signout.fromStorage =>
        /\ ~HasSent("SIGN_OUT")
        /\ signout.source = "cached"
        /\ href = signOutURL

\* C25: _getSignOutURLFromSessionStorage is false after construction; it
\* becomes true only in the step in which a requestCustomGrant with
\* preventSignOutURLUpdate resolves, a rejected custom grant leaves it as it
\* was, and no step of the client instance clears it (only a page load, which
\* constructs a new instance).  Every IS_AUTHENTICATED answer that arrives
\* with the flag set sends no SIGN_OUT and navigates to the cached URL.
C25_FlagLatches ==
    /\ ~getSignOutURLFromSessionStorage
    /\ []C25_FlagSetSignsOutCached
    /\ [][/\ (~getSignOutURLFromSessionStorage /\ getSignOutURLFromSessionStorage') =>
                /\ signout.grant = "prevent"
                /\ signout'.grant = "none" /\ signout'.granted = "resolved"
          /\ (signout.grant # "none" /\ signout'.grant = "none" /\ signout'.granted = "rejected") =>
                getSignOutURLFromSessionStorage' = getSignOutURLFromSessionStorage
          /\ (getSignOutURLFromSessionStorage /\ ~getSignOutURLFromSessionStorage') =>
                href # Undefined /\ href' = Undefined /\ signout' = IdleSignOut
          /\ (/\ getSignOutURLFromSessionStorage
              /\ signout.pc = "isAuthenticated" /\ signout'.authenticated # "unknown") =>
                /\ sent' = sent
                /\ signout'.source = "cached"
                /\ href' = signOutURL
         ]_vars

\* Witness of C25: with the flag set and a later custom grant without the
\* option resolved, an authenticated signOut went to the cached URL and
\* resolved true without SIGN_OUT.
C25_Witness ==
    /\ getSignOutURLFromSessionStorage
    /\ signout.grant = "none" /\ signout.granted = "resolved"
    /\ signout.authenticated = "true" /\ signout.fromStorage
    /\ signout.promise = Resolve(Pending, True)
    /\ ~HasSent("SIGN_OUT")

(***************************************************************************)
(* Claims about updateConfig                                               *)
(***************************************************************************)
\* C18: when updateConfig has resolved, the helper was reset and checkSession
\* started again by the call if and only if the check-session iframe URL of
\* the merged config differs from the one of the config before (a partial
\* config that does not mention endpoints.checkSessionIframe leaves it
\* equal), session management being enabled; nothing is reset before
\* UPDATE_CONFIG is acknowledged.
C18_ResetIffIframeChanged ==
    LET before == CheckSessionIframeOf(update.existingConfig)
        after == CheckSessionIframeOf(update.config)
    IN  /\ update.pc # "done" => (~update.reset /\ ~update.rechecked)
        /\ update.promise.state = "resolved" =>
              /\ before = after => (~update.reset /\ ~update.rechecked)
              /\ (before # after /\ update.config.enableOIDCSessionManagement) =>
                    (update.reset /\ update.rechecked)


\* C27: the setting an exchange has used to decide whether it looks up a
\* verifier, the worker's enablePKCE, equals the setting getAuthorizationURL
\* uses to decide whether it stores one, the enablePKCE of the configuration
\* the client was constructed with.
C27_SettingsAgree ==
    signin.pc \in {"REQUEST_ACCESS_TOKEN", "GET_SIGN_OUT_URL"} =>
        signin.config.enablePKCE = clientConfig.enablePKCE

(***************************************************************************)
(* Claims about the persisted timer record                                 *)
(***************************************************************************)
\* C22 (state part): with no schedule in flight the store yields the handle
\* of the most recently armed timer also when that timer was cancelled or has
\* fired, and a cancel that cleared the handle it read leaves a handle stored.
C22_StaleHandle ==
    /\ \A h \in TimerIds :
          (/\ timers[h].state \in {"cleared", "fired"}
           /\ h = nextTimer - 1
           /\ sched.pc \in {"idle", "getSessionData"}) => StoredHandle = h
    /\ (cancel.pc = "done" /\ cancel.consulted /\ cancel.cleared # Undefined) =>
          StoredHandle # -1

\* C22: no step of clearRefreshTokenTimeout, with or without a handle, and no
\* firing of a timer changes the persisted record, so getRefreshTimeoutTimer
\* returns the same value before and after it; after a cancel or a firing the
\* store still yields that timer's handle, not -1.
C22_CancelKeepsRecord ==
    /\ []C22_StaleHandle
    /\ [][/\ cancel' # cancel =>
                /\ tempStore' = tempStore
                /\ getRefreshTimeoutTimer(tempStore', tempStore') = StoredHandle
          /\ (\E h \in TimerIds : timers[h].state = "armed" /\ timers'[h].state = "fired") =>
                tempStore' = tempStore
         ]_vars

\* Witness of C22: the first timer has fired, a cancel without argument has
\* cleared the second, and the store still yields the second handle.
C22_Witness ==
    /\ timers[1].state = "fired"
    /\ timers[2].state = "cleared"
    /\ cancel.pc = "done" /\ cancel.consulted /\ cancel.cleared = Num(2)
    /\ StoredHandle = 2

\* C23: whenever a timer of the only schedule made so far is armed, its
\* handle is the one the store yields, so a cancel without argument that
\* starts then reaches it.
C23_ArmedIsPersisted ==
    (nextTimer = 2 /\ timers[1].state = "armed") => StoredHandle = 1

(***************************************************************************)
(* Claims about httpRequest and the HTTP handler switch                    *)
(***************************************************************************)
\* The callbacks a failed request has to have run, in order.
CallbacksDue == IF request.enabled THEN <<"requestErrorCallback", "requestFinishCallback">> ELSE <<>>

\* C21: a request that failed has rejected with the error communicate gave,
\* after the error callback and then the finish callback ran when the handler
\* switch was on, and after neither ran when it was off.
C21_FailureRunsCallbacks ==
    (request.pc = "done" /\ request.promise.state = "rejected")
        => /\ request.promise.value = request.error
           /\ request.invoked = CallbacksDue

\* C21, the switch: the flag changes only in the step in which the worker
\* acknowledged ENABLE_HTTP_HANDLER or DISABLE_HTTP_HANDLER, to the value that
\* message asks for, and a failed round trip leaves it alone.
HandlerFlagFollowsAck ==
    [][/\ isHttpHandlerEnabled' # isHttpHandlerEnabled
          => /\ handler.pc = "communicate"
             /\ handler'.promise.state = "resolved"
             /\ isHttpHandlerEnabled' = (handler.type = "ENABLE_HTTP_HANDLER")
       /\ (handler.pc = "communicate" /\ handler'.promise.state = "rejected")
          => isHttpHandlerEnabled' = isHttpHandlerEnabled]_vars

====
